---- MODULE Spec2Model ----
(***************************************************************************)
(* State manager of the torc controller (src/src/state/state.rs): the      *)
(* serving thread that owns the task and node tables, the request stubs    *)
(* its clients call, the clean loop and the peer announce handler, and the *)
(* collaborator calls they issue (service registry, routing agent).        *)
(*                                                                         *)
(* Strings whose prefixes or emptiness the code looks at (task ids, ips,   *)
(* the agent connection) are sequences of small numbers; names are TLA+    *)
(* strings.  TaskList and NodeList (state/task_list.rs, state/node_list.rs)*)
(* are not among the source files: their operations follow sections 4.A    *)
(* and 4.B of the specification.                                           *)
(***************************************************************************)
EXTENDS Integers, Sequences, FiniteSets, TLC

\* The clock stops at MaxTime.
MaxTime == 3

---------------------------------------------------------------------------
\* Configuration (StateManager::new and the loops read it from the file).

my_name == "C1"
PeerName == "C2"
master_ip == <<9>>
network_agent_type == "fboss"
network_agent_connection == <<1, 0>>
timeout == 1
restart_delay == 2

TaskNames == {"a", "b"}
NameOrder == <<"a", "b">>
NodeNames == {"n1", "n2"}
NodeOrder == <<"n1", "n2">>
States == {"NotRunning", "Restart", "Requested", "Accepted", "Running"}

---------------------------------------------------------------------------
\* State.

VARIABLES
    tasks,      \* State.task_list of the serving thread
    nodes,      \* State.node_list of the serving thread
    alive,      \* the serving thread has not panicked
    queue,      \* the channel into the serving thread
    reply,      \* per client: the response on the channel of its request
    now,        \* UTC::now().timestamp()
    fib,        \* the routing agent's table
    log,        \* per thread: the events of its current operation, in order
    clean,      \* the state-clean thread: pc, snapshots, loop index
    ann,        \* the announce handler: pc and the announced record
    exec,       \* any other client of the actor: pc and its request
    start,      \* the tables and the time when the current operation began
    sync,       \* the state-sync thread: pc, snapshot, loop index
    main,       \* the thread that runs StateManager::new: pc, next node to load
    consul,     \* what the service registry answers to a call made now
    api         \* the announce endpoint: its Mutex and its handler threads

---------------------------------------------------------------------------
\* Strings.

is_empty(s) == Len(s) = 0

starts_with(s, p) == Len(p) <= Len(s) /\ SubSeq(s, 1, Len(p)) = p

\* format!("{}/32", route_to)
Slash32(s) == s \o <<32>>

RECURSIVE SelectSeq2(_, _, _)
\* The elements of order (a sequence of keys) that are in dom, in order.
SelectSeq2(order, dom, i) ==
    IF i > Len(order) THEN <<>>
    ELSE (IF order[i] \in dom THEN <<order[i]>> ELSE <<>>)
         \o SelectSeq2(order, dom, i + 1)

---------------------------------------------------------------------------
\* Task and Node records, and the empty values of the uniform message shape.

NoTask == [name |-> "", controller |-> "", id |-> <<>>, ip |-> <<>>,
           node_name |-> "", slave_id |-> "", state |-> "NotRunning",
           last_update |-> 0, is_system_service |-> FALSE, is_job |-> FALSE]

NoNode == [name |-> "", external_ip |-> <<>>, node_type |-> "",
           node_function |-> "", slave_id |-> "", active |-> FALSE,
           last_seen |-> 0]

---------------------------------------------------------------------------
\* TaskList (section 4.A): a table keyed by name, iterated in NameOrder.

TL_keys(tl) == SelectSeq2(NameOrder, DOMAIN tl, 1)

TL_add_new_task_keep(tl, t) ==
    [n \in (DOMAIN tl) \cup {t.name} |-> IF n \in DOMAIN tl THEN tl[n] ELSE t]

\* add_new_task(t): inserts t keyed by t.name, replacing a record of that name.

TL_add_new_task(tl, t) ==
    [n \in (DOMAIN tl) \cup {t.name} |-> IF n = t.name THEN t ELSE tl[n]]

TL_has(tl, name) == name \in DOMAIN tl

TL_get_task_state(tl, name) ==
    IF name \in DOMAIN tl THEN tl[name].state ELSE "NotRunning"

RECURSIVE TL_first_with_prefix(_, _, _)
TL_first_with_prefix(tl, keys, p) ==
    IF keys = <<>> THEN ""
    ELSE IF starts_with(tl[Head(keys)].id, p) THEN Head(keys)
    ELSE TL_first_with_prefix(tl, Tail(keys), p)

TL_get_task_name_by_id_unguarded(tl, id_prefix) ==
    TL_first_with_prefix(tl, TL_keys(tl), id_prefix)

\* get_task_name_by_id(id_prefix): the first task whose id starts with a
\* non-empty id_prefix, else "".

TL_get_task_name_by_id(tl, id_prefix) ==
    IF is_empty(id_prefix) THEN "" ELSE TL_first_with_prefix(tl, TL_keys(tl), id_prefix)

TL_set_task_state(tl, name, s) ==
    IF name \in DOMAIN tl THEN [tl EXCEPT ![name].state = s] ELSE tl

TL_set_task_info(tl, name, id, ip, slave_id) ==
    IF name \in DOMAIN tl
    THEN [tl EXCEPT ![name].id = id, ![name].ip = ip, ![name].slave_id = slave_id]
    ELSE tl

TL_set_task_node_name(tl, name, node_name) ==
    IF name \in DOMAIN tl THEN [tl EXCEPT ![name].node_name = node_name] ELSE tl

TL_update_task_last_update(tl, name, t) ==
    IF name \in DOMAIN tl THEN [tl EXCEPT ![name].last_update = t] ELSE tl

TL_remove_task_by_name(tl, name) == [n \in (DOMAIN tl) \ {name} |-> tl[n]]

RECURSIVE TL_filter(_, _, _)
TL_filter(tl, keys, s) ==
    IF keys = <<>> THEN <<>>
    ELSE (IF tl[Head(keys)].state = s THEN <<tl[Head(keys)]>> ELSE <<>>)
         \o TL_filter(tl, Tail(keys), s)

TL_get_tasks_with_state(tl, s) == TL_filter(tl, TL_keys(tl), s)

---------------------------------------------------------------------------
\* NodeList (section 4.B): a table keyed by name, iterated in NodeOrder.

NL_keys(nl) == SelectSeq2(NodeOrder, DOMAIN nl, 1)

NL_add_new_node(nl, n) ==
    [k \in (DOMAIN nl) \cup {n.name} |-> IF k = n.name THEN n ELSE nl[k]]

NL_is_node_active(nl, name) == IF name \in DOMAIN nl THEN nl[name].active ELSE FALSE

NL_update_node(nl, name, type, function, slave_id, t) ==
    IF name \in DOMAIN nl
    THEN [nl EXCEPT ![name].node_type = type, ![name].node_function = function,
                    ![name].slave_id = slave_id, ![name].active = TRUE,
                    ![name].last_seen = t]
    ELSE nl

NL_set_node_inactive_drop(nl, name) == [k \in (DOMAIN nl) \ {name} |-> nl[k]]

NL_set_node_inactive(nl, name) ==
    IF name \in DOMAIN nl THEN [nl EXCEPT ![name].active = FALSE] ELSE nl

NL_has(nl, name) == name \in DOMAIN nl

NL_get_nodes(nl) == [i \in 1..Len(NL_keys(nl)) |-> nl[NL_keys(nl)[i]]]

---------------------------------------------------------------------------
\* Requests, responses and logged events, each of one uniform shape.

Msg(type, from) ==
    [type |-> type, from |-> from, name |-> "", state |-> "NotRunning",
     id |-> <<>>, ip |-> <<>>, slave_id |-> "", node_name |-> "",
     node_type |-> "", node_function |-> "", task |-> NoTask, node |-> NoNode]

Resp(type) ==
    [type |-> type, state |-> "NotRunning", name |-> "", ip |-> <<>>,
     flag |-> FALSE, tasks |-> <<>>, nodes |-> <<>>, node |-> NoNode]

NoReply == Resp("none")

\* What a receiver gets when the serving thread is gone: recv() returns Err.
Disconnected == Resp("disconnected")

\* An event of a thread's log: a collaborator call, a request sent to the
\* actor, a table mutation of a handler, or the handler's reply.
Ev(op) ==
    [op |-> op, agent |-> "", conn |-> <<>>, master |-> <<>>, name |-> "",
     to |-> <<>>, via |-> <<>>, state |-> ""]

SentEv(m) == [Ev(m.type) EXCEPT !.name = m.name, !.state = m.state]

---------------------------------------------------------------------------
\* Collaborators.

\* consul/client.rs: register(master_ip, &task.name, &task.ip); the result of
\* the HTTP call is dropped.
register_running_task(master, task) ==
    [Ev("register") EXCEPT !.master = master, !.name = task.name, !.to = task.ip]

AddRouteCall(agent, conn, to, via) ==
    [Ev("add_route") EXCEPT !.agent = agent, !.conn = conn, !.to = to, !.via = via]

DeleteRouteCall(agent, conn, to) ==
    [Ev("delete_route") EXCEPT !.agent = agent, !.conn = conn, !.to = to]

\* The routing agent's table: prefix -> next hop, as a set of routes.
FibAdd(f, to, via) == {r \in f : r.to # to} \cup {[to |-> to, via |-> via]}

FibDelete(f, to) == {r \in f : r.to # to}

\* network_agent/dispatch/client.rs add_route: the routing table after the call.
add_route(f, agent, conn, route_to, route_via) ==
    IF is_empty(route_via) THEN f
    ELSE IF starts_with(conn, route_to) THEN f
    ELSE IF agent \in {"fboss", "snaproute"}
         THEN FibAdd(f, Slash32(route_to), route_via)
         ELSE f

\* network_agent/dispatch/client.rs delete_route: the routing table after the call.
delete_route(f, agent, conn, route_to) ==
    IF is_empty(route_to) THEN f
    ELSE IF agent \in {"fboss", "snaproute"}
         THEN FibDelete(f, Slash32(route_to))
         ELSE f

---------------------------------------------------------------------------
\* The handlers of the serving thread.  Each yields the tables after it, the
\* response it sends, the events it performs in order, and whether it panics.

Out(tl, nl, resp, ev) ==
    [tasks |-> tl, nodes |-> nl, reply |-> resp, ev |-> ev, panic |-> FALSE]

Panic(tl, nl) ==
    [tasks |-> tl, nodes |-> nl, reply |-> Disconnected, ev |-> <<Ev("panic")>>,
     panic |-> TRUE]

Replied == <<Ev("reply")>>

ping(tl, nl, m) == Out(tl, nl, Resp("Pong"), Replied)

get_task_state(tl, nl, m) ==
    Out(tl, nl, [Resp("TaskState") EXCEPT !.state = TL_get_task_state(tl, m.name)],
        Replied)

get_task_ip(tl, nl, m) ==
    Out(tl, nl,
        [Resp("TaskIP") EXCEPT !.ip = IF TL_has(tl, m.name) THEN tl[m.name].ip ELSE <<>>],
        Replied)

get_task_name_by_id_unguarded(tl, nl, m) ==
    Out(tl, nl,
        [Resp("TaskName") EXCEPT !.name = TL_get_task_name_by_id_unguarded(tl, m.id)],
        Replied)

get_task_name_by_id(tl, nl, m) ==
    Out(tl, nl, [Resp("TaskName") EXCEPT !.name = TL_get_task_name_by_id(tl, m.id)],
        Replied)

update_task_state_any(tl, nl, m) ==
    LET tl1 == TL_set_task_state(tl, m.name, m.state)
        reg == IF TL_has(tl1, m.name)
               THEN <<register_running_task(master_ip, tl1[m.name])>>
               ELSE <<>>
    IN  Out(tl1, nl, Resp("UpdateTaskState"),
            <<SentEv([m EXCEPT !.type = "set_task_state"])>> \o reg \o Replied)

update_task_state_unchecked(tl, nl, m) ==
    LET tl1 == TL_set_task_state(tl, m.name, m.state)
        reg == IF m.state = "Running"
               THEN <<register_running_task(master_ip,
                         IF TL_has(tl1, m.name) THEN tl1[m.name] ELSE NoTask)>>
               ELSE <<>>
    IN  Out(tl1, nl, Resp("UpdateTaskState"),
            <<SentEv([m EXCEPT !.type = "set_task_state"])>> \o reg \o Replied)

\* set_task_state, then for Running get_task and register_running_task, then
\* the response.
update_task_state_checked(tl, nl, m) ==
    LET tl1 == TL_set_task_state(tl, m.name, m.state)
    IN  IF m.state = "Running" /\ TL_has(tl1, m.name)
        THEN IF consul = "ok"
             THEN Out(tl1, nl, Resp("UpdateTaskState"),
                      <<SentEv([m EXCEPT !.type = "set_task_state"]),
                        register_running_task(master_ip, tl1[m.name])>> \o Replied)
             ELSE Panic(tl1, nl)
        ELSE Out(tl1, nl, Resp("UpdateTaskState"),
                 <<SentEv([m EXCEPT !.type = "set_task_state"])>> \o Replied)

update_task_state(tl, nl, m) ==
    LET tl1 == TL_set_task_state(tl, m.name, m.state)
        reg == IF m.state = "Running" /\ TL_has(tl1, m.name)
               THEN <<register_running_task(master_ip, tl1[m.name])>>
               ELSE <<>>
    IN  Out(tl1, nl, Resp("UpdateTaskState"),
            <<SentEv([m EXCEPT !.type = "set_task_state"])>> \o reg \o Replied)

update_task_node_name(tl, nl, m) ==
    Out(TL_set_task_node_name(tl, m.name, m.node_name), nl,
        Resp("UpdateTaskNodeName"), Replied)

update_task_info(tl, nl, m) ==
    Out(TL_set_task_info(tl, m.name, m.id, m.ip, m.slave_id), nl,
        Resp("UpdateTaskInfo"), Replied)

update_task_last_update(tl, nl, m, t) ==
    Out(TL_update_task_last_update(tl, m.name, t), nl,
        Resp("UpdateTaskLastUpdate"), Replied)

start_task_keep(tl, nl, m) ==
    Out(TL_add_new_task_keep(tl, m.task), nl, Resp("StartTask"), Replied)

start_task(tl, nl, m) ==
    Out(TL_add_new_task(tl, m.task), nl, Resp("StartTask"), Replied)

restart_task_unstamped(tl, nl, m, t) ==
    Out(TL_set_task_state(tl, m.name, "Restart"), nl, Resp("RestartTask"), Replied)

restart_task_stamp_only(tl, nl, m, t) ==
    Out(TL_update_task_last_update(tl, m.name, t), nl, Resp("RestartTask"), Replied)

restart_task(tl, nl, m, t) ==
    Out(TL_set_task_state(TL_update_task_last_update(tl, m.name, t), m.name, "Restart"),
        nl, Resp("RestartTask"), Replied)

get_is_restartable_task(tl, nl, m) ==
    Out(tl, nl,
        [Resp("GetIsRestartableTask") EXCEPT
            !.flag = IF TL_has(tl, m.name)
                     THEN /\ tl[m.name].is_system_service
                          /\ tl[m.name].controller = my_name
                          /\ tl[m.name].is_job = FALSE
                     ELSE FALSE],
        Replied)

remove_task_by_name(tl, nl, m) ==
    Out(TL_remove_task_by_name(tl, m.name), nl, Resp("RemoveTask"), Replied)

get_requested_tasks(tl, nl, m) ==
    Out(tl, nl,
        [Resp("GetRequestedTasks") EXCEPT !.tasks = TL_get_tasks_with_state(tl, "Requested")],
        Replied)

get_running_tasks_requested(tl, nl, m) ==
    Out(tl, nl,
        [Resp("GetRunningTasks") EXCEPT !.tasks = TL_get_tasks_with_state(tl, "Requested")],
        Replied)

get_running_tasks(tl, nl, m) ==
    Out(tl, nl,
        [Resp("GetRunningTasks") EXCEPT !.tasks = TL_get_tasks_with_state(tl, "Running")],
        Replied)

get_restart_tasks(tl, nl, m) ==
    Out(tl, nl,
        [Resp("GetRestartTasks") EXCEPT !.tasks = TL_get_tasks_with_state(tl, "Restart")],
        Replied)

add_node(tl, nl, m) == Out(tl, NL_add_new_node(nl, m.node), Resp("AddNode"), Replied)

get_is_node_active(tl, nl, m) ==
    Out(tl, nl, [Resp("GetIsNodeActive") EXCEPT !.flag = NL_is_node_active(nl, m.name)],
        Replied)

update_node_unseen(tl, nl, m, t) ==
    Out(tl, [k \in DOMAIN nl |->
                IF k = m.name
                THEN [nl[k] EXCEPT !.node_type = m.node_type,
                                   !.node_function = m.node_function,
                                   !.slave_id = m.slave_id]
                ELSE nl[k]],
        Resp("UpdateNode"), Replied)

update_node(tl, nl, m, t) ==
    Out(tl, NL_update_node(nl, m.name, m.node_type, m.node_function, m.slave_id, t),
        Resp("UpdateNode"), Replied)

set_node_inactive_drop(tl, nl, m) ==
    Out(tl, NL_set_node_inactive_drop(nl, m.name), Resp("SetNodeInactive"), Replied)

set_node_inactive(tl, nl, m) ==
    Out(tl, NL_set_node_inactive(nl, m.name), Resp("SetNodeInactive"), Replied)

\* state.node_list.get_node(node_name).unwrap(): a miss panics the thread.
get_node(tl, nl, m) ==
    IF NL_has(nl, m.name)
    THEN Out(tl, nl, [Resp("GetNode") EXCEPT !.node = nl[m.name]], Replied)
    ELSE Panic(tl, nl)

get_nodes(tl, nl, m) ==
    Out(tl, nl, [Resp("GetNodes") EXCEPT !.nodes = NL_get_nodes(nl)], Replied)

\* The match of start_serving's loop.
Dispatch(tl, nl, m, t) ==
    CASE m.type = "Ping" -> ping(tl, nl, m)
      [] m.type = "GetTaskState" -> get_task_state(tl, nl, m)
      [] m.type = "GetTaskIP" -> get_task_ip(tl, nl, m)
      [] m.type = "GetTaskNameById" -> get_task_name_by_id(tl, nl, m)
      [] m.type = "UpdateTaskState" -> update_task_state(tl, nl, m)
      [] m.type = "UpdateTaskNodeName" -> update_task_node_name(tl, nl, m)
      [] m.type = "UpdateTaskInfo" -> update_task_info(tl, nl, m)
      [] m.type = "UpdateTaskLastUpdate" -> update_task_last_update(tl, nl, m, t)
      [] m.type = "StartTask" -> start_task(tl, nl, m)
      [] m.type = "RestartTask" -> restart_task(tl, nl, m, t)
      [] m.type = "RemoveTask" -> remove_task_by_name(tl, nl, m)
      [] m.type = "GetIsRestartableTask" -> get_is_restartable_task(tl, nl, m)
      [] m.type = "GetRequestedTasks" -> get_requested_tasks(tl, nl, m)
      [] m.type = "GetRunningTasks" -> get_running_tasks(tl, nl, m)
      [] m.type = "GetRestartTasks" -> get_restart_tasks(tl, nl, m)
      [] m.type = "AddNode" -> add_node(tl, nl, m)
      [] m.type = "GetIsNodeActive" -> get_is_node_active(tl, nl, m)
      [] m.type = "UpdateNode" -> update_node(tl, nl, m, t)
      [] m.type = "SetNodeInactive" -> set_node_inactive(tl, nl, m)
      [] m.type = "GetNode" -> get_node(tl, nl, m)
      [] m.type = "GetNodes" -> get_nodes(tl, nl, m)

---------------------------------------------------------------------------
vars == <<tasks, nodes, alive, queue, reply, now, fib, log, clean, ann, exec, start,
          sync, main, consul, api>>

Clients == {"clean", "announce", "announce2", "exec", "sync", "main"}
Threads == Clients \cup {"actor", "api"}

Enq_front(m) == IF alive THEN <<m>> \o queue ELSE queue

\* self.sender.send(msg).unwrap(): the message is queued, or the sender panics
\* because the receiver is gone.
Enq(m) == IF alive THEN Append(queue, m) ELSE queue

AfterSend(pc) == IF alive THEN pc ELSE "panicked"

\* receiver.recv().unwrap()
Ready(c) == reply[c].type # "none"

Logged(c, evs) == [log EXCEPT ![c] = log[c] \o evs]

EmptyTasks == [n \in {} |-> NoTask]
EmptyNodes == [n \in {} |-> NoNode]

\* The tables and the time as an operation finds them when it begins.
Snapshot == [tasks |-> tasks, nodes |-> nodes, now |-> now, valid |-> TRUE]
NoSnapshot == [tasks |-> EmptyTasks, nodes |-> EmptyNodes, now |-> 0, valid |-> FALSE]

---------------------------------------------------------------------------
\* The serving thread: start_serving's loop, one message per step.

Owners(q) == {q[i].from : i \in 1..Len(q)}

Serve ==
    /\ alive
    /\ queue # <<>>
    /\ LET m == Head(queue)
           r == Dispatch(tasks, nodes, m, now)
       IN  /\ tasks' = r.tasks
           /\ nodes' = r.nodes
           /\ log' = [log EXCEPT !["actor"] = r.ev]
           /\ IF r.panic
              THEN /\ alive' = FALSE
                   /\ queue' = <<>>
                   /\ reply' = [c \in Clients |->
                                  IF c \in Owners(queue) THEN Disconnected ELSE reply[c]]
              ELSE /\ alive' = alive
                   /\ queue' = Tail(queue)
                   /\ reply' = [reply EXCEPT ![m.from] = r.reply]
    /\ UNCHANGED <<api, consul, now, fib, clean, ann, exec, start, sync, main>>

\* Time passes.
Tick ==
    /\ now < MaxTime
    /\ now' = now + 1
    /\ UNCHANGED <<api, consul, tasks, nodes, alive, queue, reply, fib, log, clean, ann, exec, start, sync, main>>

---------------------------------------------------------------------------
\* The clean loop (start_cleaning): one tick is one pass of `loop`.

ExpireDue_delay(task, t) ==
    task.controller # my_name /\ (task.last_update + restart_delay) < t

\* The first loop removes a task: it is not ours and its last update is old.
ExpireDue(task, t) ==
    task.controller # my_name /\ (task.last_update + timeout) < t

PromoteDue_foreign(task, t) ==
    task.controller # my_name /\ (task.last_update + restart_delay) < t

\* The second loop requests a task again: it is ours and its restart is due.
PromoteDue(task, t) ==
    task.controller = my_name /\ (task.last_update + restart_delay) < t

InactivateDue_any(node, t) == (node.last_seen + timeout) < t

\* The third loop marks a node inactive: it is active and was not seen lately.
InactivateDue(node, t) ==
    node.active # FALSE /\ (node.last_seen + timeout) < t

CleanSend(m, pc) ==
    /\ queue' = Enq(m)
    /\ clean' = [clean EXCEPT !.pc = AfterSend(pc)]

CleanRecv == Ready("clean") /\ reply' = [reply EXCEPT !["clean"] = NoReply]

CleanPanic ==
    /\ reply["clean"].type = "disconnected"
    /\ clean.pc \notin {"sleep", "panicked"}
    /\ clean' = [clean EXCEPT !.pc = "panicked"]
    /\ reply' = [reply EXCEPT !["clean"] = NoReply]
    /\ UNCHANGED <<api, consul, tasks, nodes, alive, queue, now, fib, log, ann, exec, start, sync, main>>

\* thread::sleep is over: request_list_running_tasks() is sent.
CleanWake ==
    /\ clean.pc = "sleep"
    /\ LET m == Msg("GetRunningTasks", "clean")
       IN  /\ queue' = Enq(m)
           /\ clean' = [pc |-> AfterSend("w_running"), tasks |-> <<>>, nodes |-> <<>>,
                        i |-> 1]
           /\ log' = [log EXCEPT !["clean"] = <<SentEv(m)>>]
    /\ start' = [start EXCEPT !["clean"] = Snapshot]
    /\ UNCHANGED <<api, consul, tasks, nodes, alive, reply, now, fib, ann, exec, sync, main>>

CleanGotRunning ==
    /\ clean.pc = "w_running"
    /\ reply["clean"].type = "GetRunningTasks"
    /\ CleanRecv
    /\ clean' = [clean EXCEPT !.pc = "expire", !.tasks = reply["clean"].tasks, !.i = 1]
    /\ UNCHANGED <<api, consul, tasks, nodes, alive, queue, now, fib, log, ann, exec, start, sync, main>>

CleanExpire_nowait ==
    /\ clean.pc = "expire"
    /\ clean.i <= Len(clean.tasks)
    /\ LET task == clean.tasks[clean.i]
           m == [Msg("RemoveTask", "clean") EXCEPT !.name = task.name]
       IN  IF ExpireDue(task, now)
           THEN /\ queue' = Enq(m)
                /\ log' = Logged("clean", <<SentEv(m)>>)
           ELSE UNCHANGED <<queue, log>>
    /\ clean' = [clean EXCEPT !.i = clean.i + 1]
    /\ UNCHANGED <<api, consul, tasks, nodes, alive, reply, now, fib, ann, exec, start, sync, main>>

\* One iteration of `for task in &running_tasks`, up to its send.
CleanExpire ==
    /\ clean.pc = "expire"
    /\ clean.i <= Len(clean.tasks)
    /\ LET task == clean.tasks[clean.i]
           m == [Msg("RemoveTask", "clean") EXCEPT !.name = task.name]
       IN  IF ExpireDue(task, now)
           THEN /\ CleanSend(m, "w_remove")
                /\ log' = Logged("clean", <<SentEv(m)>>)
           ELSE /\ clean' = [clean EXCEPT !.i = clean.i + 1]
                /\ UNCHANGED <<queue, log>>
    /\ UNCHANGED <<api, consul, tasks, nodes, alive, reply, now, fib, ann, exec, start, sync, main>>

\* send_remove_task_by_name returned: delete_route(.., &task.ip).
CleanRemoved ==
    /\ clean.pc = "w_remove"
    /\ reply["clean"].type = "RemoveTask"
    /\ CleanRecv
    /\ LET task == clean.tasks[clean.i]
       IN  /\ fib' = delete_route(fib, network_agent_type, network_agent_connection,
                                  task.ip)
           /\ log' = Logged("clean", <<DeleteRouteCall(network_agent_type,
                                                        network_agent_connection,
                                                        task.ip)>>)
    /\ clean' = [clean EXCEPT !.pc = "expire", !.i = clean.i + 1]
    /\ UNCHANGED <<api, consul, tasks, nodes, alive, queue, now, ann, exec, start, sync, main>>

\* The first loop is over: request_list_restart_tasks() is sent.
CleanAskRestart ==
    /\ clean.pc = "expire"
    /\ clean.i > Len(clean.tasks)
    /\ LET m == Msg("GetRestartTasks", "clean")
       IN  /\ CleanSend(m, "w_restart")
           /\ log' = Logged("clean", <<SentEv(m)>>)
    /\ UNCHANGED <<api, consul, tasks, nodes, alive, reply, now, fib, ann, exec, start, sync, main>>

CleanGotRestart_keep ==
    /\ clean.pc = "w_restart"
    /\ reply["clean"].type = "GetRestartTasks"
    /\ CleanRecv
    /\ clean' = [clean EXCEPT !.pc = "promote", !.i = 1]
    /\ UNCHANGED <<api, consul, tasks, nodes, alive, queue, now, fib, log, ann, exec, start, sync, main>>

CleanGotRestart ==
    /\ clean.pc = "w_restart"
    /\ reply["clean"].type = "GetRestartTasks"
    /\ CleanRecv
    /\ clean' = [clean EXCEPT !.pc = "promote", !.tasks = reply["clean"].tasks, !.i = 1]
    /\ UNCHANGED <<api, consul, tasks, nodes, alive, queue, now, fib, log, ann, exec, start, sync, main>>

\* One iteration of `for task in &restart_tasks`, up to its send.
CleanPromote ==
    /\ clean.pc = "promote"
    /\ clean.i <= Len(clean.tasks)
    /\ LET task == clean.tasks[clean.i]
           m == [Msg("UpdateTaskState", "clean") EXCEPT
                    !.name = task.name, !.state = "Requested"]
       IN  IF PromoteDue(task, now)
           THEN /\ CleanSend(m, "w_promote")
                /\ log' = Logged("clean", <<SentEv(m)>>)
           ELSE /\ clean' = [clean EXCEPT !.i = clean.i + 1]
                /\ UNCHANGED <<queue, log>>
    /\ UNCHANGED <<api, consul, tasks, nodes, alive, reply, now, fib, ann, exec, start, sync, main>>

CleanPromoted ==
    /\ clean.pc = "w_promote"
    /\ reply["clean"].type = "UpdateTaskState"
    /\ CleanRecv
    /\ clean' = [clean EXCEPT !.pc = "promote", !.i = clean.i + 1]
    /\ UNCHANGED <<api, consul, tasks, nodes, alive, queue, now, fib, log, ann, exec, start, sync, main>>

\* The second loop is over: request_list_nodes() is sent.
CleanAskNodes ==
    /\ clean.pc = "promote"
    /\ clean.i > Len(clean.tasks)
    /\ LET m == Msg("GetNodes", "clean")
       IN  /\ CleanSend(m, "w_nodes")
           /\ log' = Logged("clean", <<SentEv(m)>>)
    /\ UNCHANGED <<api, consul, tasks, nodes, alive, reply, now, fib, ann, exec, start, sync, main>>

CleanGotNodes ==
    /\ clean.pc = "w_nodes"
    /\ reply["clean"].type = "GetNodes"
    /\ CleanRecv
    /\ clean' = [clean EXCEPT !.pc = "inactivate", !.nodes = reply["clean"].nodes, !.i = 1]
    /\ UNCHANGED <<api, consul, tasks, nodes, alive, queue, now, fib, log, ann, exec, start, sync, main>>

\* One iteration of `for node in &nodes`, up to its send.
CleanInactivate ==
    /\ clean.pc = "inactivate"
    /\ clean.i <= Len(clean.nodes)
    /\ LET node == clean.nodes[clean.i]
           m == [Msg("SetNodeInactive", "clean") EXCEPT !.name = node.name]
       IN  IF InactivateDue(node, now)
           THEN /\ CleanSend(m, "w_inactive")
                /\ log' = Logged("clean", <<SentEv(m)>>)
           ELSE /\ clean' = [clean EXCEPT !.i = clean.i + 1]
                /\ UNCHANGED <<queue, log>>
    /\ UNCHANGED <<api, consul, tasks, nodes, alive, reply, now, fib, ann, exec, start, sync, main>>

CleanInactivated ==
    /\ clean.pc = "w_inactive"
    /\ reply["clean"].type = "SetNodeInactive"
    /\ CleanRecv
    /\ clean' = [clean EXCEPT !.pc = "inactivate", !.i = clean.i + 1]
    /\ UNCHANGED <<api, consul, tasks, nodes, alive, queue, now, fib, log, ann, exec, start, sync, main>>

\* The third loop is over: the pass ends and the thread sleeps again.
CleanSleep ==
    /\ clean.pc = "inactivate"
    /\ clean.i > Len(clean.nodes)
    /\ clean' = [clean EXCEPT !.pc = "sleep", !.tasks = <<>>, !.nodes = <<>>, !.i = 1]
    /\ UNCHANGED <<api, consul, tasks, nodes, alive, queue, reply, now, fib, log, ann, exec, start, sync, main>>

CleanStep ==
    \/ CleanWake \/ CleanGotRunning \/ CleanExpire \/ CleanRemoved
    \/ CleanAskRestart \/ CleanGotRestart \/ CleanPromote \/ CleanPromoted
    \/ CleanAskNodes \/ CleanGotNodes \/ CleanInactivate \/ CleanInactivated
    \/ CleanSleep

---------------------------------------------------------------------------
\* The peer announce handler: send_announce_task(&task), called by
\* handle_task_announce with the decoded record.

\* Records a peer may push.
AnnounceInputs ==
    {[NoTask EXCEPT !.name = n, !.controller = PeerName, !.id = id, !.ip = ip,
                    !.node_name = nn, !.state = "Running", !.last_update = 0] :
        n \in TaskNames, id \in {<<>>, <<1>>, <<1, 2>>}, ip \in {<<>>, <<2>>},
        nn \in {"n1", "nX"}}

IsHeartbeat_never(name) == FALSE

\* self.request_task_name_by_id(task.id.clone()).len() > 0
IsHeartbeat(name) == Len(name) > 0

\* The name the heartbeat's UpdateTaskLastUpdate carries: task.name.clone().
HeartbeatName(task, found) == task.name

AnnRecv == Ready("announce") /\ reply' = [reply EXCEPT !["announce"] = NoReply]

AnnPanic ==
    /\ reply["announce"].type = "disconnected"
    /\ ann.pc \notin {"idle", "panicked"}
    /\ ann' = [ann EXCEPT !.pc = "panicked"]
    /\ reply' = [reply EXCEPT !["announce"] = NoReply]
    /\ UNCHANGED <<api, consul, tasks, nodes, alive, queue, now, fib, log, clean, exec, start, sync, main>>

\* The call begins: request_task_name_by_id(task.id) is sent.
AnnBeginOf(inputs) ==
    /\ ann.pc = "idle"
    /\ \E t \in inputs :
          LET m == [Msg("GetTaskNameById", "announce") EXCEPT !.id = t.id]
          IN  /\ queue' = Enq(m)
              /\ ann' = [pc |-> AfterSend("w_name"), task |-> t, node |-> NoNode]
              /\ log' = [log EXCEPT !["announce"] = <<SentEv(m)>>]
    /\ start' = [start EXCEPT !["announce"] = Snapshot]
    /\ UNCHANGED <<api, consul, tasks, nodes, alive, reply, now, fib, clean, exec, sync, main>>

AnnBegin == AnnBeginOf(AnnounceInputs)

\* The lookup returned: a heartbeat for a known id, else request_node.
AnnGotName ==
    /\ ann.pc = "w_name"
    /\ reply["announce"].type = "TaskName"
    /\ AnnRecv
    /\ LET hb == [Msg("UpdateTaskLastUpdate", "announce") EXCEPT
                     !.name = HeartbeatName(ann.task, reply["announce"].name)]
           gn == [Msg("GetNode", "announce") EXCEPT !.name = ann.task.node_name]
       IN  IF IsHeartbeat(reply["announce"].name)
           THEN /\ queue' = Enq(hb)
                /\ ann' = [ann EXCEPT !.pc = AfterSend("w_done")]
                /\ log' = Logged("announce", <<SentEv(hb)>>)
           ELSE /\ queue' = Enq(gn)
                /\ ann' = [ann EXCEPT !.pc = AfterSend("w_node")]
                /\ log' = Logged("announce", <<SentEv(gn)>>)
    /\ UNCHANGED <<api, consul, tasks, nodes, alive, now, fib, clean, exec, start, sync, main>>

\* request_node returned Some(node): add_route(.., &task.ip, &node.external_ip).
AnnGotNode ==
    /\ ann.pc = "w_node"
    /\ reply["announce"].type = "GetNode"
    /\ AnnRecv
    /\ LET node == reply["announce"].node
       IN  /\ fib' = add_route(fib, network_agent_type, network_agent_connection,
                               ann.task.ip, node.external_ip)
           /\ log' = Logged("announce", <<AddRouteCall(network_agent_type,
                                                        network_agent_connection,
                                                        ann.task.ip, node.external_ip)>>)
           /\ ann' = [ann EXCEPT !.pc = "ask_ip", !.node = node]
    /\ UNCHANGED <<api, consul, tasks, nodes, alive, queue, now, clean, exec, start, sync, main>>

\* request_task_ip(task.name) is sent.
AnnAskIp ==
    /\ ann.pc = "ask_ip"
    /\ LET m == [Msg("GetTaskIP", "announce") EXCEPT !.name = ann.task.name]
       IN  /\ queue' = Enq(m)
           /\ ann' = [ann EXCEPT !.pc = AfterSend("w_ip")]
           /\ log' = Logged("announce", <<SentEv(m)>>)
    /\ UNCHANGED <<api, consul, tasks, nodes, alive, reply, now, fib, clean, exec, start, sync, main>>

\* request_task_ip returned: delete_route(.., &ip) when ip.len() > 0.
AnnGotIp ==
    /\ ann.pc = "w_ip"
    /\ reply["announce"].type = "TaskIP"
    /\ AnnRecv
    /\ LET ip == reply["announce"].ip
       IN  IF Len(ip) > 0
           THEN /\ fib' = delete_route(fib, network_agent_type,
                                       network_agent_connection, ip)
                /\ log' = Logged("announce", <<DeleteRouteCall(network_agent_type,
                                                   network_agent_connection, ip)>>)
           ELSE UNCHANGED <<fib, log>>
    /\ ann' = [ann EXCEPT !.pc = "start"]
    /\ UNCHANGED <<api, consul, tasks, nodes, alive, queue, now, clean, exec, start, sync, main>>

\* StartTask { task: task.clone() } is sent.
AnnStart ==
    /\ ann.pc = "start"
    /\ LET m == [Msg("StartTask", "announce") EXCEPT
                    !.name = ann.task.name, !.task = ann.task]
       IN  /\ queue' = Enq(m)
           /\ ann' = [ann EXCEPT !.pc = AfterSend("w_done")]
           /\ log' = Logged("announce", <<SentEv(m)>>)
    /\ UNCHANGED <<api, consul, tasks, nodes, alive, reply, now, fib, clean, exec, start, sync, main>>

\* receiver.recv().unwrap() at the end: the call returns.
AnnDone ==
    /\ ann.pc = "w_done"
    /\ reply["announce"].type \in {"UpdateTaskLastUpdate", "StartTask"}
    /\ AnnRecv
    /\ ann' = [ann EXCEPT !.pc = "idle"]
    /\ log' = Logged("announce", <<Ev("return")>>)
    /\ UNCHANGED <<api, consul, tasks, nodes, alive, queue, now, fib, clean, exec, start, sync, main>>

AnnStep ==
    \/ AnnBegin \/ AnnGotName \/ AnnGotNode \/ AnnAskIp \/ AnnGotIp \/ AnnStart
    \/ AnnDone \/ AnnPanic

---------------------------------------------------------------------------
\* Any other client of the actor (the scheduler's callbacks, the HTTP handlers,
\* the initializer): one request stub at a time, send then recv.

\* send_start_task: the record it builds.
NewTask_running(name, t) ==
    [NoTask EXCEPT !.name = name, !.controller = my_name, !.id = <<1>>, !.ip = <<>>,
                   !.slave_id = "", !.node_name = "n1", !.state = "Running",
                   !.last_update = t]

NewTask(name, t) ==
    [NoTask EXCEPT !.name = name, !.controller = my_name, !.id = <<>>, !.ip = <<>>,
                   !.slave_id = "", !.node_name = "n1", !.state = "Requested",
                   !.last_update = t]

\* send_add_node: the record it builds.
NewNode(name, t) ==
    [NoNode EXCEPT !.name = name, !.external_ip = <<7>>, !.node_type = "slave",
                   !.node_function = "none", !.active = FALSE, !.slave_id = "",
                   !.last_seen = t]

TaskRequests ==
    {[Msg(ty, "exec") EXCEPT !.name = n] :
        ty \in {"GetTaskState", "GetTaskIP", "GetIsRestartableTask",
                "UpdateTaskLastUpdate", "RestartTask", "RemoveTask"},
        n \in TaskNames}
    \cup {[Msg("UpdateTaskState", "exec") EXCEPT !.name = n, !.state = st] :
            n \in TaskNames, st \in States}
    \cup {[Msg("UpdateTaskInfo", "exec") EXCEPT
              !.name = n, !.id = <<1>>, !.ip = <<2>>, !.slave_id = "s1"] :
            n \in TaskNames}
    \cup {[Msg("UpdateTaskNodeName", "exec") EXCEPT !.name = n, !.node_name = "n1"] :
            n \in TaskNames}
    \cup {[Msg("GetTaskNameById", "exec") EXCEPT !.id = <<1>>]}
    \cup {Msg(ty, "exec") :
            ty \in {"Ping", "GetRequestedTasks", "GetRunningTasks", "GetRestartTasks"}}

NodeRequests ==
    {[Msg(ty, "exec") EXCEPT !.name = n] :
        ty \in {"GetIsNodeActive", "SetNodeInactive", "GetNode"}, n \in {"n1", "nX"}}
    \cup {[Msg("UpdateNode", "exec") EXCEPT
              !.name = n, !.node_type = "slave", !.node_function = "none",
              !.slave_id = ""] : n \in {"n1", "nX"}}
    \cup {Msg("GetNodes", "exec")}

\* The requests whose records carry the time of the call.
TimedRequests(t) ==
    {[Msg("StartTask", "exec") EXCEPT !.name = "a", !.task = NewTask("a", t)],
     [Msg("AddNode", "exec") EXCEPT !.name = "n1", !.node = NewNode("n1", t)]}

ExecRequests(t) == TaskRequests \cup NodeRequests \cup TimedRequests(t)

LiveRequests(t) ==
    {m \in ExecRequests(t) : m.type \in {"Ping", "GetNode", "AddNode", "GetNodes"}}

\* self.sender.send(msg).unwrap()
ExecSendOf(requests) ==
    /\ exec.pc = "idle"
    /\ \E m \in requests :
          /\ queue' = Enq(m)
          /\ exec' = [pc |-> AfterSend("wait"), msg |-> m, resp |-> NoReply]
          /\ log' = [log EXCEPT !["exec"] = <<SentEv(m)>>]
    /\ start' = [start EXCEPT !["exec"] = Snapshot]
    /\ UNCHANGED <<api, consul, tasks, nodes, alive, reply, now, fib, clean, ann, sync, main>>

ExecSend == ExecSendOf(ExecRequests(now))

ExecSendLive == ExecSendOf(LiveRequests(now))

\* receiver.recv().unwrap() returned the response.
ExecRecv ==
    /\ exec.pc = "wait"
    /\ reply["exec"].type \notin {"none", "disconnected"}
    /\ exec' = [exec EXCEPT !.pc = "idle", !.resp = reply["exec"]]
    /\ reply' = [reply EXCEPT !["exec"] = NoReply]
    /\ UNCHANGED <<api, consul, tasks, nodes, alive, queue, now, fib, log, clean, ann, start, sync, main>>

\* receiver.recv().unwrap() on a channel whose sender was dropped.
ExecPanic ==
    /\ exec.pc = "wait"
    /\ reply["exec"].type = "disconnected"
    /\ exec' = [exec EXCEPT !.pc = "panicked"]
    /\ reply' = [reply EXCEPT !["exec"] = NoReply]
    /\ UNCHANGED <<api, consul, tasks, nodes, alive, queue, now, fib, log, clean, ann, start, sync, main>>

---------------------------------------------------------------------------
\* Tables the program can hold: tasks started here or announced by a peer and
\* moved through their states, nodes loaded from the configuration.

TaskRecord(n, c, id, ip, s, lu) ==
    [NoTask EXCEPT !.name = n, !.controller = c, !.id = id, !.ip = ip,
                   !.node_name = "n1", !.state = s, !.last_update = lu]

NodeRecord(n, ext, act, seen) ==
    [NoNode EXCEPT !.name = n, !.external_ip = ext, !.node_type = "slave",
                   !.node_function = "none", !.active = act, !.last_seen = seen]

TablesOver(names, records) ==
    UNION {[d -> UNION {records[n] : n \in d}] : d \in SUBSET names}

WellKeyed(t) == \A n \in DOMAIN t : t[n].name = n

CleanTaskRecords(n) ==
    {TaskRecord(n, c, <<1>>, ip, s, lu) :
        c \in {my_name, PeerName},
        ip \in IF n = "a" THEN {<<2>>} ELSE {<<>>, <<2>>, <<3>>},
        s \in {"Running", "Restart"}, lu \in {0, 1}}

CleanNodeRecords(n) ==
    IF n = "n1"
    THEN {NodeRecord(n, <<7>>, act, seen) : act \in BOOLEAN, seen \in {0, 1}}
    ELSE {NodeRecord(n, <<7>>, TRUE, 1), NodeRecord(n, <<7>>, FALSE, 0)}

\* The routes the announces of the foreign tasks of a table installed.
RoutesOf(tl) ==
    {[to |-> Slash32(tl[n].ip), via |-> <<7>>] :
        n \in {k \in DOMAIN tl : tl[k].controller # my_name /\ ~is_empty(tl[k].ip)}}

\* The handler threads of the announce endpoint, and the endpoint with its
\* lock free and no request being handled.
Handlers == {1, 2}

IdleApi == [lock |-> 0, h |-> [i \in Handlers |-> [pc |-> "idle", task |-> NoTask]]]

IdleClients ==
    /\ alive = TRUE
    /\ queue = <<>>
    /\ reply = [c \in Clients |-> NoReply]
    /\ log = [t \in Threads |-> <<>>]
    /\ clean = [pc |-> "sleep", tasks |-> <<>>, nodes |-> <<>>, i |-> 1]
    /\ ann = [pc |-> "idle", task |-> NoTask, node |-> NoNode]
    /\ exec = [pc |-> "idle", msg |-> Msg("none", "exec"), resp |-> NoReply]
    /\ start = [c \in Clients |-> NoSnapshot]
    /\ sync = [pc |-> "sleep", tasks |-> <<>>, i |-> 1]
    /\ main = [pc |-> "done", i |-> 1]

\* The clean loop alone with the actor: no other client acts.
InitClean ==
    /\ tasks \in {t \in TablesOver(TaskNames, [n \in TaskNames |-> CleanTaskRecords(n)]) : WellKeyed(t)}
    /\ nodes \in {t \in TablesOver(NodeNames, [n \in NodeNames |-> CleanNodeRecords(n)]) : WellKeyed(t)}
    /\ fib = RoutesOf(tasks)
    /\ now = 0
    /\ IdleClients
    /\ consul = "ok"
    /\ api = IdleApi

NextClean == Serve \/ Tick \/ CleanStep

SpecClean == InitClean /\ [][NextClean]_vars

AnnTaskRecords(n) ==
    {TaskRecord(n, PeerName, id, ip, s, 0) :
        id \in {<<>>, <<1>>, <<1, 2>>}, ip \in {<<>>, <<3>>},
        s \in {"Requested"}}

AnnNodeRecords(n) ==
    IF n = "n1"
    THEN {NodeRecord(n, <<7>>, TRUE, 0), NodeRecord(n, <<>>, TRUE, 0)}
    ELSE {}

\* The announce handler alone with the actor.
InitAnnounce ==
    /\ tasks \in {t \in TablesOver(TaskNames, [n \in TaskNames |-> AnnTaskRecords(n)]) : WellKeyed(t)}
    /\ nodes \in {t \in TablesOver({"n1"}, [n \in {"n1"} |-> AnnNodeRecords(n)]) : WellKeyed(t)}
    /\ fib = RoutesOf(tasks)
    /\ now = 1
    /\ IdleClients
    /\ consul = "ok"
    /\ api = IdleApi

NextAnnounce == Serve \/ AnnStep

SpecAnnounce == InitAnnounce /\ [][NextAnnounce]_vars

\* The state after start_serving: empty tables, and clients calling the stubs.
Init ==
    /\ tasks = EmptyTasks
    /\ nodes = EmptyNodes
    /\ fib = {}
    /\ now = 0
    /\ IdleClients
    /\ consul = "ok"
    /\ api = IdleApi

Next == Serve \/ Tick \/ ExecSend \/ ExecRecv \/ ExecPanic

Spec == Init /\ [][Next]_vars

NextLive == Serve \/ Tick \/ ExecSendLive \/ ExecRecv \/ ExecPanic

\* The serving thread loops on rx.recv(), and a client blocked in recv() runs on
\* once its response, or the loss of its channel, is there.
SpecLive ==
    /\ Init
    /\ [][NextLive]_vars
    /\ WF_vars(Serve)
    /\ WF_vars(ExecRecv)
    /\ WF_vars(ExecPanic)

---------------------------------------------------------------------------
\* Claims about the clean loop (SpecClean).

\* A pass of the clean loop has ended.
TickDone == clean.pc = "sleep" /\ start["clean"].valid

CleanLog == log["clean"]

\* The pass sent RemoveTask(t.name) once and called
\* delete_route(agent_type, conn, t.ip) right after it.
ExpiredOnce(t) ==
    /\ \E i \in 1..(Len(CleanLog) - 1) :
          /\ CleanLog[i].op = "RemoveTask" /\ CleanLog[i].name = t.name
          /\ CleanLog[i + 1] = DeleteRouteCall(network_agent_type,
                                               network_agent_connection, t.ip)
    /\ Cardinality({i \in 1..Len(CleanLog) :
                      CleanLog[i].op = "RemoveTask" /\ CleanLog[i].name = t.name}) = 1
    /\ Cardinality({i \in 1..Len(CleanLog) : CleanLog[i].op = "delete_route"})
         = Cardinality({i \in 1..Len(CleanLog) : CleanLog[i].op = "RemoveTask"})

StaleForeignAtStart(t) ==
    t.controller # my_name /\ (t.last_update + timeout) < start["clean"].now

\* C1 as stated: after a pass of the clean loop, every foreign task that was in
\* the table when the pass began with last_update + timeout < now is gone, and
\* one delete_route for its ip was issued.
C1_EveryForeignTaskExpired ==
    TickDone =>
        \A n \in DOMAIN start["clean"].tasks :
            StaleForeignAtStart(start["clean"].tasks[n]) =>
                n \notin DOMAIN tasks /\ ExpiredOnce(start["clean"].tasks[n])

\* C1 amended: after a pass of the clean loop, every foreign task that was in
\* state Running when the pass began with last_update + timeout < now is gone
\* from the table, and the pass issued exactly one delete_route(agent_type,
\* conn, t.ip) for it, right after its RemoveTask.
C1_RunningForeignTaskExpired ==
    TickDone =>
        \A n \in DOMAIN start["clean"].tasks :
            (/\ StaleForeignAtStart(start["clean"].tasks[n])
             /\ start["clean"].tasks[n].state = "Running") =>
                n \notin DOMAIN tasks /\ ExpiredOnce(start["clean"].tasks[n])

C1_Witness ==
    /\ TickDone
    /\ \E n \in DOMAIN start["clean"].tasks :
          /\ StaleForeignAtStart(start["clean"].tasks[n])
          /\ start["clean"].tasks[n].state = "Running"
          /\ n \notin DOMAIN tasks
          /\ \E i \in 1..Len(CleanLog) : CleanLog[i].op = "delete_route"

DueRestartAtStart(t) ==
    /\ t.state = "Restart"
    /\ t.controller = my_name
    /\ (t.last_update + restart_delay) < start["clean"].now

\* C9: after a pass of the clean loop, every task of this controller that was in
\* state Restart when the pass began with last_update + restart_delay < now is
\* in state Requested.
C9_RestartPromoted ==
    TickDone =>
        \A n \in DOMAIN start["clean"].tasks :
            DueRestartAtStart(start["clean"].tasks[n]) =>
                n \in DOMAIN tasks /\ tasks[n].state = "Requested"

C9_Witness ==
    /\ TickDone
    /\ \E n \in DOMAIN start["clean"].tasks :
          /\ DueRestartAtStart(start["clean"].tasks[n])
          /\ tasks[n].state = "Requested"

\* C10: after a pass of the clean loop, every node that was active when the pass
\* began with last_seen + timeout < now is inactive; and a SetNodeInactive the
\* pass sends never names a node that was inactive already.
C10_StaleNodesInactive ==
    /\ TickDone =>
          \A n \in DOMAIN start["clean"].nodes :
              (/\ start["clean"].nodes[n].active
               /\ (start["clean"].nodes[n].last_seen + timeout) < start["clean"].now) =>
                  nodes[n].active = FALSE
    /\ \A i \in 1..Len(CleanLog) :
          CleanLog[i].op = "SetNodeInactive" =>
              /\ CleanLog[i].name \in DOMAIN start["clean"].nodes
              /\ start["clean"].nodes[CleanLog[i].name].active

C10_Witness ==
    /\ TickDone
    /\ \E n \in DOMAIN start["clean"].nodes :
          /\ start["clean"].nodes[n].active
          /\ (start["clean"].nodes[n].last_seen + timeout) < start["clean"].now
          /\ nodes[n].active = FALSE
    /\ \E n \in DOMAIN start["clean"].nodes : start["clean"].nodes[n].active = FALSE

---------------------------------------------------------------------------
\* Claims about the announce handler (SpecAnnounce).

AnnStartState == start["announce"]

\* send_announce_task has returned.
AnnReturned == ann.pc = "idle" /\ AnnStartState.valid

\* Some task of the table holds this id.
KnownId(tl, id) == ~is_empty(id) /\ \E n \in DOMAIN tl : tl[n].id = id

SameButLastUpdate(t, u) == [t EXCEPT !.last_update = 0] = [u EXCEPT !.last_update = 0]

AnnLog == log["announce"]

\* C3: while and after a record whose id a table task holds is announced, the
\* table has the same names, every task has the fields it had but for
\* last_update, the node table is as it was, and no add_route or delete_route
\* is issued.
C3_KnownIdAnnounceFrame ==
    (AnnStartState.valid /\ KnownId(AnnStartState.tasks, ann.task.id)) =>
        /\ DOMAIN tasks = DOMAIN AnnStartState.tasks
        /\ \A n \in DOMAIN tasks : SameButLastUpdate(tasks[n], AnnStartState.tasks[n])
        /\ nodes = AnnStartState.nodes
        /\ \A i \in 1..Len(AnnLog) : AnnLog[i].op \notin {"add_route", "delete_route"}

C3_Witness ==
    /\ AnnReturned
    /\ KnownId(AnnStartState.tasks, ann.task.id)
    /\ \E n \in DOMAIN tasks : tasks[n].last_update # AnnStartState.tasks[n].last_update

\* C4 as stated: when the announce of a record whose id a table task holds has
\* returned, a table task holding that id has its last_update at the time of
\* the announce, whatever the name of the announced record.
C4_HolderRefreshed ==
    (AnnReturned /\ KnownId(AnnStartState.tasks, ann.task.id)) =>
        \E n \in DOMAIN tasks :
            /\ tasks[n].id = ann.task.id
            /\ AnnStartState.now <= tasks[n].last_update
            /\ tasks[n].last_update <= now

AddRoutes == {i \in 1..Len(AnnLog) : AnnLog[i].op = "add_route"}

\* C5 as stated: when the announce of a record whose id no table task holds and
\* whose node is in the node table has returned, exactly one
\* add_route(agent_type, conn, task.ip, node.external_ip) was issued and the
\* table holds the announced record under its name.
C5_NewReplicaRoutedAndStored ==
    (/\ AnnReturned
     /\ ~KnownId(AnnStartState.tasks, ann.task.id)
     /\ ann.task.node_name \in DOMAIN AnnStartState.nodes) =>
        /\ Cardinality(AddRoutes) = 1
        /\ \A i \in AddRoutes :
              AnnLog[i] = AddRouteCall(network_agent_type, network_agent_connection,
                              ann.task.ip,
                              AnnStartState.nodes[ann.task.node_name].external_ip)
        /\ ann.task.name \in DOMAIN tasks
        /\ tasks[ann.task.name] = ann.task

---------------------------------------------------------------------------
\* Claims about the actor and its request stubs (Spec, SpecLive).

ActorLog == log["actor"]

CollaboratorOps == {"register", "add_route", "delete_route", "reset_fib", "kill_task"}

\* C2: the handler of UpdateTaskState(name, Running) for a task of the table
\* writes the state, then calls register(master_ip, name, ip) once with the
\* task's ip, then replies; for another target state it calls no register.
C2_RunningRegistersOnce ==
    (ActorLog # <<>> /\ ActorLog[1].op = "set_task_state") =>
        IF ActorLog[1].state = "Running"
        THEN ActorLog[1].name \in DOMAIN tasks =>
                /\ tasks[ActorLog[1].name].state = "Running"
                /\ ActorLog = <<ActorLog[1],
                                [Ev("register") EXCEPT
                                    !.master = master_ip,
                                    !.name = ActorLog[1].name,
                                    !.to = tasks[ActorLog[1].name].ip],
                                Ev("reply")>>
        ELSE \A i \in 1..Len(ActorLog) : ActorLog[i].op # "register"

C2_Witness ==
    /\ ActorLog # <<>>
    /\ ActorLog[1].op = "set_task_state"
    /\ ActorLog[1].state = "Running"
    /\ ActorLog[1].name \in DOMAIN tasks
    /\ ~is_empty(tasks[ActorLog[1].name].ip)
    /\ Len(ActorLog) = 3

\* C6 as stated: a GetNode for a name that is not in the node table is
\* answered, and the serving thread goes on serving.
C6_UnknownNodeAnswered ==
    (exec.msg.type = "GetNode" /\ exec.msg.name \notin DOMAIN start["exec"].nodes) =>
        /\ alive
        /\ reply["exec"].type # "disconnected"
        /\ exec.pc # "panicked"

ExecStartState == start["exec"]

\* The response to the client's request is on its channel.
ExecAnswered == exec.pc = "wait" /\ reply["exec"].type \notin {"none", "disconnected"}

UnknownTaskRequest ==
    /\ ExecAnswered
    /\ exec.msg.name \in TaskNames
    /\ exec.msg.name \notin DOMAIN ExecStartState.tasks

Mutators == {"UpdateTaskState", "UpdateTaskInfo", "UpdateTaskNodeName",
             "UpdateTaskLastUpdate", "RestartTask", "RemoveTask"}

\* C7: for a task name that is not in the table, GetTaskState answers
\* NotRunning, GetTaskIP the empty string, GetIsRestartableTask false; the
\* requests that update or remove a task leave both tables as they were, make
\* no collaborator call and are answered.
C7_UnknownTaskDefaults ==
    UnknownTaskRequest =>
        /\ exec.msg.type = "GetTaskState" =>
              reply["exec"].type = "TaskState" /\ reply["exec"].state = "NotRunning"
        /\ exec.msg.type = "GetTaskIP" =>
              reply["exec"].type = "TaskIP" /\ reply["exec"].ip = <<>>
        /\ exec.msg.type = "GetIsRestartableTask" =>
              reply["exec"].type = "GetIsRestartableTask" /\ reply["exec"].flag = FALSE
        /\ exec.msg.type \in Mutators =>
              /\ tasks = ExecStartState.tasks
              /\ nodes = ExecStartState.nodes
              /\ \A i \in 1..Len(ActorLog) : ActorLog[i].op \notin CollaboratorOps
              /\ reply["exec"].type = exec.msg.type

C7_Witness ==
    /\ UnknownTaskRequest
    /\ exec.msg.type = "UpdateTaskState"
    /\ exec.msg.state = "Running"
    /\ DOMAIN tasks # {}

\* C8 as stated: a request a client has sent is answered in the end.
C8_EveryRequestAnswered == (exec.pc = "wait") ~> (exec.pc = "idle")

---------------------------------------------------------------------------
\* Claims about what one handler does to the tables with the message it takes.

\* The serving thread takes the message at the head of the queue, of this type,
\* and its handler runs to its reply.
ActorTakes(type) ==
    /\ alive
    /\ queue # <<>>
    /\ Head(queue).type = type
    /\ queue' = Tail(queue)
    /\ alive'

\* C11: a StartTask leaves the table with one record per name, each stored
\* under its own name: the record the StartTask carried is the one under its
\* name, a record that had that name is gone, and the other records are as they
\* were.
C11_StartTaskOnePerName ==
    [][ActorTakes("StartTask") =>
          LET r == Head(queue).task
          IN  /\ DOMAIN tasks' = DOMAIN tasks \cup {r.name}
              /\ tasks'[r.name] = r
              /\ \A n \in DOMAIN tasks \ {r.name} : tasks'[n] = tasks[n]
              /\ \A n \in DOMAIN tasks' : tasks'[n].name = n]_vars

\* An announce has replaced the record that had the announced name.
C11_Witness ==
    /\ AnnReturned
    /\ ann.task.name \in DOMAIN AnnStartState.tasks
    /\ AnnStartState.tasks[ann.task.name] # ann.task
    /\ tasks[ann.task.name] = ann.task
    /\ Cardinality(DOMAIN tasks) = 2

---------------------------------------------------------------------------
\* The lookups of the task table, asked by one client over tables of every
\* shape: tasks in any state, with no id yet, or with ids one of which is a
\* prefix of the other.

QueryIds == {<<>>, <<1>>, <<1, 2>>}

QueryTaskRecords(n) ==
    {TaskRecord(n, my_name, id, <<2>>, s, 0) :
        id \in QueryIds, s \in {"Requested", "Accepted", "Running", "Restart"}}

QueryRequests ==
    {Msg(ty, "exec") : ty \in {"GetRequestedTasks", "GetRunningTasks", "GetRestartTasks"}}
    \cup {[Msg("GetTaskNameById", "exec") EXCEPT !.id = p] : p \in QueryIds \cup {<<2>>}}

ExecSendQuery == ExecSendOf(QueryRequests)

InitQuery ==
    /\ tasks \in {t \in TablesOver(TaskNames, [n \in TaskNames |-> QueryTaskRecords(n)]) :
                    WellKeyed(t)}
    /\ nodes = EmptyNodes
    /\ fib = {}
    /\ now = 0
    /\ IdleClients
    /\ consul = "ok"
    /\ api = IdleApi

NextQuery == Serve \/ ExecSendQuery \/ ExecRecv

SpecQuery == InitQuery /\ [][NextQuery]_vars

ListTypes == {"GetRequestedTasks", "GetRunningTasks", "GetRestartTasks"}

ListedState(type) ==
    CASE type = "GetRequestedTasks" -> "Requested"
      [] type = "GetRunningTasks" -> "Running"
      [] type = "GetRestartTasks" -> "Restart"

Listed(resp) == {resp.tasks[i] : i \in 1..Len(resp.tasks)}

WithState(tl, s) == {tl[n] : n \in {k \in DOMAIN tl : tl[k].state = s}}

\* C12: the response the actor sends to GetRequestedTasks, GetRunningTasks or
\* GetRestartTasks lists exactly the tasks that are in state Requested, Running
\* or Restart in the table the handler reads: each of them and no other.
C12_ListsExactlyTheState ==
    [][\A ty \in ListTypes :
          ActorTakes(ty) =>
              LET out == reply'[Head(queue).from]
              IN  /\ out.type = ty
                  /\ Listed(out) = WithState(tasks, ListedState(ty))]_vars

\* A list came back that holds one of the two tasks of the table.
C12_Witness ==
    /\ ExecAnswered
    /\ exec.msg.type \in ListTypes
    /\ Cardinality(DOMAIN tasks) = 2
    /\ Len(reply["exec"].tasks) = 1
    /\ reply["exec"].tasks[1].state = ListedState(exec.msg.type)

\* C13: a non-empty name n in the response to GetTaskNameById(p) is the name
\* of a task of the table whose id begins with p; for an empty p, or when no
\* id in the table begins with p, the response is the empty name.
C13_NameByIdPrefix ==
    [][ActorTakes("GetTaskNameById") =>
          LET p == Head(queue).id
              n == reply'[Head(queue).from].name
          IN  /\ reply'[Head(queue).from].type = "TaskName"
              /\ n # "" => n \in DOMAIN tasks /\ starts_with(tasks[n].id, p)
              /\ (is_empty(p) \/ \A k \in DOMAIN tasks : ~starts_with(tasks[k].id, p))
                    => n = ""]_vars

\* The lookup found a task by a proper prefix of its id.
C13_Witness ==
    /\ ExecAnswered
    /\ exec.msg.type = "GetTaskNameById"
    /\ reply["exec"].name \in DOMAIN tasks
    /\ tasks[reply["exec"].name].id # exec.msg.id

---------------------------------------------------------------------------
\* Two clients at once: a peer's announce is handled while another client
\* starts, updates, reads and removes the task "a", so that requests of
\* different threads meet in the queue.

SharedRequests(t) ==
    {m \in ExecRequests(t) :
        m.type \in {"StartTask", "RemoveTask", "GetTaskState"} /\ m.name = "a"}

SharedInputs ==
    {t \in AnnounceInputs :
        \/ t.name = "a" /\ t.id = <<1>> /\ t.ip = <<2>> /\ t.node_name = "n1"
        \/ t.name = "b" /\ t.id = <<1, 2>> /\ t.ip = <<>> /\ t.node_name = "nX"}

AnnBeginShared == AnnBeginOf(SharedInputs)

AnnStepShared ==
    \/ AnnBeginShared \/ AnnGotName \/ AnnGotNode \/ AnnAskIp \/ AnnGotIp \/ AnnStart
    \/ AnnDone \/ AnnPanic

ExecSendShared == ExecSendOf(SharedRequests(now))

InitShared ==
    /\ tasks = EmptyTasks
    /\ nodes \in {t \in TablesOver({"n1"}, [n \in {"n1"} |-> AnnNodeRecords(n)]) :
                    WellKeyed(t)}
    /\ fib = {}
    /\ now = 1
    /\ IdleClients
    /\ consul = "ok"
    /\ api = IdleApi

NextShared == Serve \/ AnnStepShared \/ ExecSendShared \/ ExecRecv \/ ExecPanic

SpecShared == InitShared /\ [][NextShared]_vars


\* The response each request of the catalog is answered with.
ResponseType(type) ==
    CASE type = "Ping" -> "Pong"
      [] type = "GetTaskState" -> "TaskState"
      [] type = "GetTaskIP" -> "TaskIP"
      [] type = "GetTaskNameById" -> "TaskName"
      [] OTHER -> type

\* C14: the queue changes only by a send, which appends at its tail, or by the
\* serving thread, which takes its head; the handler of that message runs to
\* its reply (tables written, response on the sender's channel) in that one
\* step, and the tables change in no other step. A client sends its next
\* request only after the reply to the one before, so its requests take effect
\* in the order it sent them.
C14_FifoOneAtATime ==
    [][/\ queue' # queue =>
            \/ /\ Len(queue') = Len(queue) + 1
               /\ SubSeq(queue', 1, Len(queue)) = queue
            \/ /\ alive
               /\ queue # <<>>
               /\ LET m == Head(queue)
                      r == Dispatch(tasks, nodes, m, now)
                  IN  /\ tasks' = r.tasks
                      /\ nodes' = r.nodes
                      /\ IF r.panic
                         THEN ~alive' /\ queue' = <<>>
                         ELSE /\ queue' = Tail(queue)
                              /\ reply'[m.from] = r.reply
                              /\ log'["actor"] = r.ev
                              /\ r.ev[Len(r.ev)] = Ev("reply")
       /\ (tasks' # tasks \/ nodes' # nodes) => queue' # queue
       /\ Len(queue') = Len(queue) + 1 =>
             /\ queue'[Len(queue')].from \notin Owners(queue)
             /\ reply'[queue'[Len(queue')].from] = NoReply]_vars

\* Requests of two clients are in the queue at once.
C14_Witness ==
    /\ alive
    /\ Len(queue) = 2
    /\ queue[1].from # queue[2].from
    /\ queue[2].type = "StartTask"

RequestTypes ==
    {"Ping", "GetTaskState", "GetTaskIP", "GetTaskNameById", "UpdateTaskState",
     "UpdateTaskNodeName", "UpdateTaskInfo", "UpdateTaskLastUpdate", "StartTask",
     "RestartTask", "GetIsRestartableTask", "RemoveTask", "GetRequestedTasks",
     "GetRunningTasks", "GetRestartTasks", "AddNode", "GetIsNodeActive", "UpdateNode",
     "SetNodeInactive", "GetNode", "GetNodes"}

\* The request a thread sent last, by its log.
RECURSIVE LastRequest(_)
LastRequest(L) ==
    IF L = <<>> THEN ""
    ELSE IF L[Len(L)].op \in RequestTypes THEN L[Len(L)].op
    ELSE LastRequest(SubSeq(L, 1, Len(L) - 1))

Replies(L) == {i \in 1..Len(L) : L[i].op = "reply"}

\* C15 as stated: the handler of every message the actor takes sends one
\* response, and what a client finds on its channel is the response to the
\* request it sent.
C15_OneResponsePerRequest ==
    /\ ActorLog # <<>> => Cardinality(Replies(ActorLog)) = 1
    /\ \A c \in Clients :
          reply[c] # NoReply => reply[c].type = ResponseType(LastRequest(log[c]))

---------------------------------------------------------------------------
\* The sync loop (start_syncing): one tick is one pass of `loop`.

SyncAnnounces_all(task) == TRUE

\* task.controller == my_name
SyncAnnounces(task) == task.controller = my_name

SyncRecv == Ready("sync") /\ reply' = [reply EXCEPT !["sync"] = NoReply]

\* thread::sleep is over: request_list_running_tasks() is sent.
SyncWake ==
    /\ sync.pc = "sleep"
    /\ LET m == Msg("GetRunningTasks", "sync")
       IN  /\ queue' = Enq(m)
           /\ sync' = [pc |-> AfterSend("w_running"), tasks |-> <<>>, i |-> 1]
           /\ log' = [log EXCEPT !["sync"] = <<SentEv(m)>>]
    /\ start' = [start EXCEPT !["sync"] = Snapshot]
    /\ UNCHANGED <<api, consul, tasks, nodes, alive, reply, now, fib, clean, ann, exec, main>>

SyncGotRunning ==
    /\ sync.pc = "w_running"
    /\ reply["sync"].type = "GetRunningTasks"
    /\ SyncRecv
    /\ sync' = [pc |-> "register", tasks |-> reply["sync"].tasks, i |-> 1]
    /\ UNCHANGED <<api, consul, tasks, nodes, alive, queue, now, fib, log, clean, ann, exec, start, main>>

\* One iteration of `for task in &running_tasks`: register_running_task, and
\* for a task of this controller the call of send_announce_task.
SyncRegister ==
    /\ sync.pc = "register"
    /\ sync.i <= Len(sync.tasks)
    /\ LET task == sync.tasks[sync.i]
           reg == register_running_task(master_ip, task)
           call == [Ev("send_announce_task") EXCEPT !.name = task.name]
       IN  IF SyncAnnounces(task)
           THEN /\ log' = [log EXCEPT !["sync"] = log["sync"] \o <<reg, call>>,
                                      !["announce"] = <<>>]
                /\ sync' = [sync EXCEPT !.pc = "call"]
           ELSE /\ log' = Logged("sync", <<reg>>)
                /\ sync' = [sync EXCEPT !.i = sync.i + 1]
    /\ UNCHANGED <<api, consul, tasks, nodes, alive, queue, reply, now, fib, clean, ann, exec, start, main>>

\* send_announce_task(&task) begins, on the sync thread.
SyncAnnBegin ==
    /\ sync.pc = "call"
    /\ log["announce"] = <<>>
    /\ AnnBeginOf({sync.tasks[sync.i]})

\* send_announce_task returned: the next task of the snapshot.
SyncReturned ==
    /\ sync.pc = "call"
    /\ ann.pc = "idle"
    /\ log["announce"] # <<>>
    /\ sync' = [sync EXCEPT !.pc = "register", !.i = sync.i + 1]
    /\ UNCHANGED <<api, consul, tasks, nodes, alive, queue, reply, now, fib, log, clean, ann, exec, start, main>>

\* An unwrap() of a recv() on a dropped channel, in the loop or in the announce
\* it called, ends the thread.
SyncPanic ==
    /\ \/ sync.pc = "w_running" /\ reply["sync"].type = "disconnected"
       \/ sync.pc = "call" /\ ann.pc = "panicked"
    /\ sync' = [sync EXCEPT !.pc = "panicked"]
    /\ reply' = [reply EXCEPT !["sync"] = NoReply]
    /\ UNCHANGED <<api, consul, tasks, nodes, alive, queue, now, fib, log, clean, ann, exec, start, main>>

\* The loop over the snapshot is over: the thread sleeps again.
SyncSleep ==
    /\ sync.pc = "register"
    /\ sync.i > Len(sync.tasks)
    /\ sync' = [sync EXCEPT !.pc = "sleep"]
    /\ UNCHANGED <<api, consul, tasks, nodes, alive, queue, reply, now, fib, log, clean, ann, exec, start, main>>

SyncStep ==
    \/ SyncWake \/ SyncGotRunning \/ SyncRegister \/ SyncAnnBegin
    \/ AnnGotName \/ AnnGotNode \/ AnnAskIp \/ AnnGotIp \/ AnnStart \/ AnnDone \/ AnnPanic
    \/ SyncReturned \/ SyncPanic \/ SyncSleep

\* Tables a sync tick can find: tasks of this controller and of a peer, running
\* or not, with or without an id yet, on a node the node table may not hold.
SyncTaskRecords(n) ==
    {TaskRecord(n, c, id, <<2>>, s, 0) :
        c \in {my_name, PeerName}, id \in {<<>>, <<1>>}, s \in {"Running", "Requested"}}

InitSync ==
    /\ tasks \in {t \in TablesOver(TaskNames, [n \in TaskNames |-> SyncTaskRecords(n)]) :
                    WellKeyed(t)}
    /\ nodes \in {t \in TablesOver({"n1"}, [n \in {"n1"} |-> AnnNodeRecords(n)]) :
                    WellKeyed(t)}
    /\ fib = RoutesOf(tasks)
    /\ now = 1
    /\ IdleClients
    /\ consul = "ok"
    /\ api = IdleApi

NextSync == Serve \/ SyncStep

SpecSync == InitSync /\ [][NextSync]_vars


\* The sync tick is over: the thread is back in its sleep, or it has ended.
SyncTickOver == start["sync"].valid /\ sync.pc \in {"sleep", "panicked"}

SyncLog == log["sync"]

\* The Running tasks of the table the tick read.
SyncSnapshot == TL_get_tasks_with_state(start["sync"].tasks, "Running")

\* For each task in turn: register(master_ip, name, ip), then, for a task of
\* this controller, send_announce_task.
RECURSIVE SyncCalls(_)
SyncCalls(ts) ==
    IF ts = <<>> THEN <<>>
    ELSE <<[Ev("register") EXCEPT
               !.master = master_ip, !.name = Head(ts).name, !.to = Head(ts).ip]>>
         \o (IF Head(ts).controller = my_name
             THEN <<[Ev("send_announce_task") EXCEPT !.name = Head(ts).name]>>
             ELSE <<>>)
         \o SyncCalls(Tail(ts))

\* C17 as stated: a sync tick reads the Running tasks and then, for each of
\* them, calls register(master_ip, name, ip) once and, exactly for those of
\* this controller, send_announce_task right after the task's register.
C17_SyncTickCalls ==
    SyncTickOver =>
        SyncLog = <<SentEv(Msg("GetRunningTasks", "sync"))>> \o SyncCalls(SyncSnapshot)

---------------------------------------------------------------------------
\* StateManager::new on the thread that constructs the manager, the two loops
\* it starts, and, once new has returned the manager, the announce endpoint.

\* config["nodes"]
ConfigNodes == <<"n1", "n2">>

ResetFibCall(agent, conn) == [Ev("reset_fib") EXCEPT !.agent = agent, !.conn = conn]

\* network_agent/dispatch/client.rs reset_fib: the routing table after the call.
reset_fib_any(f, agent, conn) == {}

reset_fib(f, agent, conn) == IF agent \in {"fboss", "snaproute"} THEN {} ELSE f

NodesLoaded_any == TRUE

\* load_node_list has sent an AddNode for every configured node and returned.
NodesLoaded == main.i > Len(ConfigNodes)

\* statemanager.start_serving(rx)
MainServe ==
    /\ main.pc = "new"
    /\ alive' = TRUE
    /\ main' = [main EXCEPT !.pc = "load"]
    /\ log' = Logged("main", <<Ev("start_serving")>>)
    /\ UNCHANGED <<api, consul, tasks, nodes, queue, reply, now, fib, clean, ann, exec, start, sync>>

\* load_node_list: send_add_node for the next node of the configuration.
MainLoad ==
    /\ main.pc = "load"
    /\ main.i <= Len(ConfigNodes)
    /\ LET m == [Msg("AddNode", "main") EXCEPT
                    !.name = ConfigNodes[main.i],
                    !.node = NewNode(ConfigNodes[main.i], now)]
       IN  /\ queue' = Enq(m)
           /\ main' = [main EXCEPT !.pc = AfterSend("w_add")]
           /\ log' = Logged("main", <<SentEv(m)>>)
    /\ UNCHANGED <<api, consul, tasks, nodes, alive, reply, now, fib, clean, ann, exec, start, sync>>

\* send_add_node returned.
MainAdded ==
    /\ main.pc = "w_add"
    /\ reply["main"].type = "AddNode"
    /\ reply' = [reply EXCEPT !["main"] = NoReply]
    /\ main' = [pc |-> "load", i |-> main.i + 1]
    /\ UNCHANGED <<api, consul, tasks, nodes, alive, queue, now, fib, log, clean, ann, exec, start, sync>>

\* statemanager.start_syncing()
MainStartSync ==
    /\ main.pc = "load"
    /\ NodesLoaded
    /\ sync' = [sync EXCEPT !.pc = "sleep"]
    /\ main' = [main EXCEPT !.pc = "start_cleaning"]
    /\ log' = Logged("main", <<Ev("start_syncing")>>)
    /\ UNCHANGED <<api, consul, tasks, nodes, alive, queue, reply, now, fib, clean, ann, exec, start>>

\* statemanager.start_cleaning()
MainStartClean ==
    /\ main.pc = "start_cleaning"
    /\ clean' = [clean EXCEPT !.pc = "sleep"]
    /\ main' = [main EXCEPT !.pc = "reset_fib"]
    /\ log' = Logged("main", <<Ev("start_cleaning")>>)
    /\ UNCHANGED <<api, consul, tasks, nodes, alive, queue, reply, now, fib, ann, exec, start, sync>>

\* reset_fib(&network_agent_type, &network_agent_connection); new returns.
MainResetFib ==
    /\ main.pc = "reset_fib"
    /\ fib' = reset_fib(fib, network_agent_type, network_agent_connection)
    /\ main' = [main EXCEPT !.pc = "done"]
    /\ log' = Logged("main", <<ResetFibCall(network_agent_type, network_agent_connection)>>)
    /\ UNCHANGED <<api, consul, tasks, nodes, alive, queue, reply, now, clean, ann, exec, start, sync>>

MainStep ==
    \/ MainServe \/ MainLoad \/ MainAdded \/ MainStartSync \/ MainStartClean
    \/ MainResetFib

\* A peer's record, announced to the endpoint that holds the manager new
\* returned.
NewInputs == {t \in AnnounceInputs : t.name = "a" /\ t.id = <<1>> /\ t.node_name = "n1"}

AnnBeginNew == main.pc = "done" /\ AnnBeginOf(NewInputs)

AnnStepNew ==
    \/ AnnBeginNew \/ AnnGotName \/ AnnGotNode \/ AnnAskIp \/ AnnGotIp \/ AnnStart
    \/ AnnDone

\* Routes a controller that ran before may have left in the routing agent.
InitNew ==
    /\ tasks = EmptyTasks
    /\ nodes = EmptyNodes
    /\ fib \in {{}, {[to |-> Slash32(<<2>>), via |-> <<7>>]}}
    /\ now = 2
    /\ alive = FALSE
    /\ queue = <<>>
    /\ reply = [c \in Clients |-> NoReply]
    /\ log = [t \in Threads |-> <<>>]
    /\ clean = [pc |-> "unstarted", tasks |-> <<>>, nodes |-> <<>>, i |-> 1]
    /\ sync = [pc |-> "unstarted", tasks |-> <<>>, i |-> 1]
    /\ ann = [pc |-> "idle", task |-> NoTask, node |-> NoNode]
    /\ exec = [pc |-> "idle", msg |-> Msg("none", "exec"), resp |-> NoReply]
    /\ start = [c \in Clients |-> NoSnapshot]
    /\ main = [pc |-> "new", i |-> 1]
    /\ consul = "ok"
    /\ api = IdleApi

\* The tasks in the table are the peer's: the clean loop finds no task of this
\* controller to promote and no active node, and the sync loop none to announce.
CleanStepNew ==
    \/ CleanWake \/ CleanGotRunning \/ CleanExpire \/ CleanRemoved
    \/ CleanAskRestart \/ CleanGotRestart \/ CleanAskNodes \/ CleanGotNodes
    \/ CleanInactivate \/ CleanSleep

SyncStepNew == SyncWake \/ SyncGotRunning \/ SyncRegister \/ SyncSleep

NextNew == MainStep \/ Serve \/ CleanStepNew \/ SyncStepNew \/ AnnStepNew

SpecNew == InitNew /\ [][NextNew]_vars


MainLog == log["main"]

RouteCalls(L) == {i \in 1..Len(L) : L[i].op \in {"add_route", "delete_route"}}

ResetFibs == {i \in 1..Len(MainLog) : MainLog[i].op = "reset_fib"}

AllNodesLoaded == \A k \in 1..Len(ConfigNodes) : ConfigNodes[k] \in DOMAIN nodes

\* C16: in StateManager::new every AddNode is sent after start_serving; when
\* the sync loop or the clean loop is started the node table holds every
\* configured node; reset_fib is called once, with the node table loaded, and
\* no thread calls add_route or delete_route before it.
C16_NewOrder ==
    /\ \A i \in 1..Len(MainLog) :
          MainLog[i].op = "AddNode" => i > 1 /\ MainLog[1].op = "start_serving"
    /\ (sync.pc # "unstarted" \/ clean.pc # "unstarted") => AllNodesLoaded
    /\ Cardinality(ResetFibs) = (IF main.pc = "done" THEN 1 ELSE 0)
    /\ ResetFibs # {} => AllNodesLoaded
    /\ \A c \in {"clean", "sync", "announce"} : RouteCalls(log[c]) # {} => ResetFibs # {}

\* new has returned, and since then a peer's task was announced, routed and
\* expired again by the clean loop.
C16_Witness ==
    /\ main.pc = "done"
    /\ AllNodesLoaded
    /\ RouteCalls(log["clean"]) # {}
    /\ RouteCalls(log["announce"]) # {}

---------------------------------------------------------------------------
\* The clean loop while another client acts on the same task: a peer's task
\* "a" is in the table, and the name is started and restarted here between
\* the requests of a clean tick.

RaceRequests(t) ==
    {m \in ExecRequests(t) : m.type \in {"StartTask", "RestartTask"} /\ m.name = "a"}

ExecSendRace == ExecSendOf(RaceRequests(now))

InitRace ==
    /\ tasks = [n \in {"a"} |-> TaskRecord("a", PeerName, <<1>>, <<2>>, "Running", 0)]
    /\ nodes = [n \in {"n1"} |-> NodeRecord("n1", <<7>>, TRUE, 0)]
    /\ fib = RoutesOf(tasks)
    /\ now = 0
    /\ IdleClients
    /\ consul = "ok"
    /\ api = IdleApi

NextRace == Serve \/ Tick \/ CleanStep \/ ExecSendRace \/ ExecRecv

SpecRace == InitRace /\ [][NextRace]_vars


\* The serving thread takes a request of the clean loop.
ActorTakesFromClean ==
    /\ alive
    /\ queue # <<>>
    /\ Head(queue).from = "clean"
    /\ queue' = Tail(queue)

\* The clean loop calls delete_route in this step.
CleanDeletesRoute ==
    /\ Len(log'["clean"]) = Len(log["clean"]) + 1
    /\ log'["clean"][Len(log'["clean"])].op = "delete_route"

\* C18 as stated: no RemoveTask of the clean loop is for a task of this
\* controller, no delete_route of the clean loop is for such a task, and a
\* request of the clean loop leaves every task of this controller in the table,
\* unchanged or with only its state set to Requested.
C18_CleanSparesOwnedTasks ==
    [][/\ ActorTakesFromClean =>
             \A n \in DOMAIN tasks :
                tasks[n].controller = my_name =>
                   /\ ~(Head(queue).type = "RemoveTask" /\ Head(queue).name = n)
                   /\ n \in DOMAIN tasks'
                   /\ tasks'[n] \in {tasks[n], [tasks[n] EXCEPT !.state = "Requested"]}
       /\ CleanDeletesRoute => clean.tasks[clean.i].controller # my_name]_vars


---------------------------------------------------------------------------
\* The time stamps of the task "a" as time passes: this controller starts and
\* restarts it while a peer announces a task of the same name, as a new
\* replica first and as a heartbeat afterwards.

ExecSendStamp == ExecSendOf(RaceRequests(now))

InitStamp ==
    /\ tasks = EmptyTasks
    /\ nodes \in {t \in TablesOver({"n1"}, [n \in {"n1"} |-> AnnNodeRecords(n)]) :
                    WellKeyed(t)}
    /\ fib = {}
    /\ now = 0
    /\ IdleClients
    /\ consul = "ok"
    /\ api = IdleApi

NextStamp == Serve \/ Tick \/ AnnStepShared \/ ExecSendStamp \/ ExecRecv \/ ExecPanic

SpecStamp == InitStamp /\ [][NextStamp]_vars

\* The serving thread takes a request of the given type about the task n.
ActorTakesFor(type, n) ==
    /\ ActorTakes(type)
    /\ (IF type = "StartTask" THEN Head(queue).task.name ELSE Head(queue).name) = n

---------------------------------------------------------------------------
\* The node table under every request that writes it: a client adds the node
\* "n1", reports it and sets it inactive while the clean loop runs its ticks
\* beside it, over a peer's task to expire and a task of this controller to
\* promote.

NodeWriteRequests(t) ==
    {m \in ExecRequests(t) :
        m.type \in {"AddNode", "UpdateNode", "SetNodeInactive"} /\ m.name = "n1"}

ExecSendNodes == ExecSendOf(NodeWriteRequests(now))

InitNodes ==
    /\ tasks = [n \in TaskNames |->
                   IF n = "a" THEN TaskRecord(n, PeerName, <<1>>, <<2>>, "Running", 0)
                   ELSE TaskRecord(n, my_name, <<1, 2>>, <<3>>, "Restart", 0)]
    /\ nodes = [n \in {"n2"} |-> NodeRecord("n2", <<7>>, FALSE, 0)]
    /\ fib = RoutesOf(tasks)
    /\ now = 0
    /\ IdleClients
    /\ consul = "ok"
    /\ api = IdleApi

NextNodes == Serve \/ Tick \/ CleanStep \/ ExecSendNodes \/ ExecRecv

SpecNodes == InitNodes /\ [][NextNodes]_vars

\* C20: no step takes a name out of the node table, and a SetNodeInactive, as
\* every request of the clean loop, leaves each node record as it was or with
\* only its active flag cleared.
C20_NodeNamesNeverShrink ==
    [][/\ DOMAIN nodes \subseteq DOMAIN nodes'
       /\ (ActorTakes("SetNodeInactive") \/ ActorTakesFromClean) =>
             \A n \in DOMAIN nodes :
                nodes'[n] \in {nodes[n], [nodes[n] EXCEPT !.active = FALSE]}]_vars

\* The table has grown by the node "n1", and the clean loop has set it inactive.
C20_Witness ==
    /\ DOMAIN nodes = {"n1", "n2"}
    /\ \E i \in 1..Len(log["clean"]) :
          log["clean"][i].op = "SetNodeInactive" /\ log["clean"][i].name = "n1"
    /\ clean.pc = "sleep"
    /\ ~nodes["n1"].active


---------------------------------------------------------------------------
\* The node flags.

\* C21: the node an AddNode of send_add_node stores is inactive; an UpdateNode
\* for a node of the table leaves it active and seen now; a SetNodeInactive
\* leaves it inactive; GetIsNodeActive answers the flag of the node, and false
\* for a name that is not in the table.
C21_NodeActiveFlag ==
    [][/\ ActorTakes("AddNode") =>
             /\ Head(queue).node.name \in DOMAIN nodes'
             /\ ~nodes'[Head(queue).node.name].active
       /\ \A n \in DOMAIN nodes :
             /\ ActorTakesFor("UpdateNode", n) =>
                   nodes'[n].active /\ nodes'[n].last_seen = now
             /\ ActorTakesFor("SetNodeInactive", n) => ~nodes'[n].active
       /\ ActorTakes("GetIsNodeActive") =>
             LET n == Head(queue).name
                 r == reply'[Head(queue).from]
             IN  /\ r.type = "GetIsNodeActive"
                 /\ r.flag = (n \in DOMAIN nodes /\ nodes[n].active)
                 /\ nodes' = nodes]_vars

\* A node that was added and updated at a later time is reported active.
C21_Witness ==
    /\ ExecAnswered
    /\ exec.msg.type = "GetIsNodeActive"
    /\ reply["exec"].flag
    /\ nodes[exec.msg.name].last_seen > 0


---------------------------------------------------------------------------
\* Where the tasks of this controller come from: a client starts the task "a",
\* the executor reports its placement and it is removed again, while records
\* are announced under the same name, by a peer and (as the sync loop does for
\* the tasks of this controller) with this controller's name.

OwnerRequests(t) ==
    {m \in ExecRequests(t) :
        m.type \in {"StartTask", "UpdateTaskInfo", "RemoveTask"} /\ m.name = "a"}

OwnerInputs ==
    {[NoTask EXCEPT !.name = "a", !.controller = c, !.id = <<1, 2>>, !.ip = <<3>>,
                    !.node_name = "n1", !.state = "Running", !.last_update = 0] :
        c \in {my_name, PeerName}}

ExecSendOwner == ExecSendOf(OwnerRequests(now))

AnnBeginOwner == AnnBeginOf(OwnerInputs)

AnnStepOwner ==
    \/ AnnBeginOwner \/ AnnGotName \/ AnnGotNode \/ AnnAskIp \/ AnnGotIp \/ AnnStart
    \/ AnnDone

NextOwner == Serve \/ AnnStepOwner \/ ExecSendOwner \/ ExecRecv

SpecOwner == InitShared /\ [][NextOwner]_vars

\* C22: the record a StartTask of send_start_task stores is Requested, of this
\* controller, with empty id, ip and slave_id; and a name comes to hold a task
\* of this controller only by a StartTask, of send_start_task or of an announce
\* that carries this controller's name.
C22_StartedTaskIsOwnedRequested ==
    [][/\ ActorTakes("StartTask") /\ Head(queue).from = "exec" =>
             LET t == tasks'[Head(queue).task.name]
             IN  /\ t.state = "Requested"
                 /\ t.controller = my_name
                 /\ is_empty(t.id) /\ is_empty(t.ip) /\ t.slave_id = ""
       /\ \A n \in DOMAIN tasks' :
             (/\ tasks'[n].controller = my_name
              /\ ~(n \in DOMAIN tasks /\ tasks[n].controller = my_name))
                => /\ ActorTakesFor("StartTask", n)
                   /\ Head(queue).from \in {"exec", "announce"}
                   /\ Head(queue).task.controller = my_name]_vars

\* send_start_task has replaced a peer's record of the name by a task of this
\* controller.
C22_Witness ==
    /\ ExecAnswered
    /\ exec.msg.type = "StartTask"
    /\ exec.msg.name \in DOMAIN ExecStartState.tasks
    /\ ExecStartState.tasks[exec.msg.name].controller = PeerName
    /\ tasks[exec.msg.name] = exec.msg.task


---------------------------------------------------------------------------
\* The routing agent dispatcher by itself: reset_fib, add_route and
\* delete_route called with every kind of argument, on every routing table
\* the calls before have left.

RouteAgents == {"fboss", "snaproute", "undefined", "other"}
RouteConns == {<<1, 0>>, <<2>>}
RouteTos == {<<>>, <<1>>, <<1, 0>>, <<2>>, <<3>>}
RouteVias == {<<>>, <<7>>, <<8>>}

\* "fboss" => fboss::..., "snaproute" => snaproute::...
Dispatched == {"fboss", "snaproute"}

AgentCall(op, agent, conn, to, via) ==
    [Ev(op) EXCEPT !.agent = agent, !.conn = conn, !.to = to, !.via = via]

\* What reset_fib hands on to the agent's client.
reset_fib_forwards(agent, conn) ==
    IF agent \in Dispatched
    THEN <<AgentCall("agent_reset_fib", agent, conn, <<>>, <<>>)>>
    ELSE <<>>

add_route_forwards_unchecked(agent, conn, route_to, route_via) ==
    IF agent \in Dispatched
    THEN <<AgentCall("agent_add_route", agent, conn, Slash32(route_to), route_via)>>
    ELSE <<>>

\* What add_route hands on to the agent's client.
add_route_forwards(agent, conn, route_to, route_via) ==
    IF is_empty(route_via) THEN <<>>
    ELSE IF starts_with(conn, route_to) THEN <<>>
    ELSE IF agent \in Dispatched
         THEN <<AgentCall("agent_add_route", agent, conn, Slash32(route_to), route_via)>>
         ELSE <<>>

\* What delete_route hands on to the agent's client.
delete_route_forwards(agent, conn, route_to) ==
    IF is_empty(route_to) THEN <<>>
    ELSE IF agent \in Dispatched
         THEN <<AgentCall("agent_delete_route", agent, conn, Slash32(route_to), <<>>)>>
         ELSE <<>>

\* The log of one call: the call, what it handed on, and its return.
Returned(call, forwards) ==
    [log EXCEPT !["announce"] = <<call>> \o forwards \o <<Ev("return")>>]

CallResetFib ==
    /\ \E agent \in RouteAgents, conn \in RouteConns :
          /\ fib' = reset_fib(fib, agent, conn)
          /\ log' = Returned(ResetFibCall(agent, conn), reset_fib_forwards(agent, conn))
    /\ UNCHANGED <<api, consul, tasks, nodes, alive, queue, reply, now, clean, ann, exec, start, sync, main>>

CallAddRoute ==
    /\ \E agent \in RouteAgents, conn \in RouteConns, to \in RouteTos, via \in RouteVias :
          /\ fib' = add_route(fib, agent, conn, to, via)
          /\ log' = Returned(AddRouteCall(agent, conn, to, via),
                             add_route_forwards(agent, conn, to, via))
    /\ UNCHANGED <<api, consul, tasks, nodes, alive, queue, reply, now, clean, ann, exec, start, sync, main>>

CallDeleteRoute ==
    /\ \E agent \in RouteAgents, conn \in RouteConns, to \in RouteTos :
          /\ fib' = delete_route(fib, agent, conn, to)
          /\ log' = Returned(DeleteRouteCall(agent, conn, to),
                             delete_route_forwards(agent, conn, to))
    /\ UNCHANGED <<api, consul, tasks, nodes, alive, queue, reply, now, clean, ann, exec, start, sync, main>>

InitRoute ==
    /\ tasks = EmptyTasks
    /\ nodes = EmptyNodes
    /\ fib = {}
    /\ now = 0
    /\ IdleClients
    /\ consul = "ok"
    /\ api = IdleApi

NextRoute == CallResetFib \/ CallAddRoute \/ CallDeleteRoute

SpecRoute == InitRoute /\ [][NextRoute]_vars

\* The call a step makes, and what the call handed on to the agent's client.
RouteCall == log'["announce"][1]
RouteForwards == SubSeq(log'["announce"], 2, Len(log'["announce"]) - 1)
RouteReturns == log'["announce"][Len(log'["announce"])].op = "return"

\* C23: a reset_fib, add_route or delete_route with an agent type other than
\* fboss and snaproute hands nothing on to an agent, leaves the routing table
\* as it was and returns.
C23_UnknownAgentNoOp ==
    [][(log'["announce"] # log["announce"] /\ RouteCall.agent \notin {"fboss", "snaproute"})
          => /\ RouteCall.op \in {"reset_fib", "add_route", "delete_route"}
             /\ RouteForwards = <<>>
             /\ RouteReturns
             /\ fib' = fib]_vars

\* The routing table holds a route, and the last call, with an unknown agent
\* type, was a reset_fib.
C23_Witness ==
    /\ fib # {}
    /\ log["announce"] # <<>>
    /\ log["announce"][1].op = "reset_fib"
    /\ log["announce"][1].agent = "other"


\* C24: with an agent type that is dispatched, add_route hands nothing on when
\* via is empty or when to is a prefix of the connection (the empty to
\* included) and otherwise one add of to/32 via via; delete_route hands nothing
\* on when to is empty and otherwise one delete of to/32.
C24_RouteForwarding ==
    [][(log'["announce"] # log["announce"] /\ RouteCall.agent \in {"fboss", "snaproute"})
          => LET c == RouteCall
             IN  /\ c.op = "add_route" =>
                       /\ (is_empty(c.via) \/ starts_with(c.conn, c.to))
                             => RouteForwards = <<>>
                       /\ ~(is_empty(c.via) \/ starts_with(c.conn, c.to))
                             => RouteForwards =
                                   <<[Ev("agent_add_route") EXCEPT
                                         !.agent = c.agent, !.conn = c.conn,
                                         !.to = c.to \o <<32>>, !.via = c.via]>>
                 /\ c.op = "delete_route" =>
                       /\ is_empty(c.to) => RouteForwards = <<>>
                       /\ ~is_empty(c.to)
                             => RouteForwards =
                                   <<[Ev("agent_delete_route") EXCEPT
                                         !.agent = c.agent, !.conn = c.conn,
                                         !.to = c.to \o <<32>>]>>
                 /\ RouteReturns]_vars

\* An add_route to a proper prefix of the connection, with a next hop, was
\* not handed on.
C24_Witness ==
    /\ log["announce"] # <<>>
    /\ log["announce"][1].op = "add_route"
    /\ log["announce"][1].agent = "fboss"
    /\ log["announce"][1].to = <<1>>
    /\ log["announce"][1].conn = <<1, 0>>
    /\ log["announce"][1].via = <<7>>
    /\ Len(log["announce"]) = 2
    /\ fib # {}


---------------------------------------------------------------------------
\* The service registry fails: the executor reports the task "a" while the
\* sync loop runs its ticks, and every register call of the run is answered
\* the same way, well or with one of the failures.

RegisterOutcomes == {"ok", "refused", "timeout", "status500"}

\* let _ = CLIENT.post(&address).body(&service_description).send(): the result
\* the call gets and drops.
register_result == consul

RegistryRequests(t) ==
    {m \in ExecRequests(t) :
        m.type = "UpdateTaskState" /\ m.name = "a" /\ m.state \in {"Running", "Accepted"}}

ExecSendRegistry == ExecSendOf(RegistryRequests(now))

RegistryTaskRecords(n) ==
    {TaskRecord(n, c, id, <<2>>, "Requested", 0) :
        c \in {my_name, PeerName}, id \in {<<>>, <<1>>}}

InitRegistry ==
    /\ tasks \in {t \in TablesOver(TaskNames,
                                   [n \in TaskNames |-> RegistryTaskRecords(n)]) :
                    WellKeyed(t)}
    /\ nodes \in {t \in TablesOver({"n1"}, [n \in {"n1"} |-> AnnNodeRecords(n)]) :
                    WellKeyed(t)}
    /\ fib = RoutesOf(tasks)
    /\ now = 1
    /\ IdleClients
    /\ consul \in RegisterOutcomes
    /\ api = IdleApi

NextRegistry == Serve \/ SyncStep \/ ExecSendRegistry \/ ExecRecv \/ ExecPanic

SpecRegistry == InitRegistry /\ [][NextRegistry]_vars

\* The serving thread handles the request at the head of its queue.
ActorHandles(type) ==
    /\ alive
    /\ queue # <<>>
    /\ Head(queue).type = type
    /\ Len(queue') < Len(queue)

HasEvent(L, e) == \E i \in 1..Len(L) : L[i] = e

\* C25: when the register call fails, an UpdateTaskState(name, Running) for a
\* task of the table still leaves the task Running, is answered, and leaves the
\* serving thread alive; and a sync tick still reads every Running task and
\* goes on to register each task of its list, so the task is registered again
\* by the next tick.
C25_RegisterFailureIgnored ==
    [][register_result # "ok" =>
          /\ (/\ ActorHandles("UpdateTaskState")
              /\ Head(queue).state = "Running"
              /\ Head(queue).name \in DOMAIN tasks)
                => /\ alive'
                   /\ Head(queue).name \in DOMAIN tasks'
                   /\ tasks'[Head(queue).name].state = "Running"
                   /\ reply'[Head(queue).from].type = "UpdateTaskState"
                   /\ HasEvent(log'["actor"],
                               register_running_task(master_ip, tasks'[Head(queue).name]))
          /\ (ActorHandles("GetRunningTasks") /\ Head(queue).from = "sync")
                => /\ alive'
                   /\ reply'["sync"].tasks = TL_get_tasks_with_state(tasks, "Running")
          /\ (sync.pc = "register" /\ sync' # sync)
                => IF sync.i <= Len(sync.tasks)
                   THEN /\ sync'.pc \in {"register", "call"}
                        /\ sync'.tasks = sync.tasks
                        /\ sync'.i \in {sync.i, sync.i + 1}
                        /\ HasEvent(SubSeq(log'["sync"], Len(log["sync"]) + 1,
                                           Len(log'["sync"])),
                                    register_running_task(master_ip, sync.tasks[sync.i]))
                   ELSE sync'.pc = "sleep"]_vars

\* With the registry refusing connections, the executor has reported "a"
\* Running, and a sync tick that began after that has registered it and ended.
C25_Witness ==
    /\ consul = "refused"
    /\ exec.pc = "idle"
    /\ exec.msg.type = "UpdateTaskState"
    /\ exec.msg.state = "Running"
    /\ "a" \in DOMAIN ExecStartState.tasks
    /\ ExecStartState.tasks["a"].state = "Requested"
    /\ sync.pc = "sleep"
    /\ start["sync"].valid
    /\ "a" \in DOMAIN start["sync"].tasks
    /\ start["sync"].tasks["a"].state = "Running"
    /\ HasEvent(log["sync"], register_running_task(master_ip, start["sync"].tasks["a"]))
    /\ alive


---------------------------------------------------------------------------
\* The delete-by-name request of the API (run_api.rs handle_service_delete)
\* beside a client that starts the task "a" and reports it Running.  The query
\* of the URL is a sequence of characters.

NameParam == <<"n", "a", "m", "e", "=">>

DeleteQueries ==
    {<<>>, NameParam, NameParam \o <<"a">>, NameParam \o <<"b">>,
     <<"i", "d", "=", "a">>, <<"x">> \o NameParam \o <<"a">>}

\* query.split_at(5): the part after "name=".
QueryName(query) == SubSeq(query, 6, Len(query))

\* The task name a one-character query value spells.
TaskNameOf(s) == IF Len(s) = 1 THEN s[1] ELSE ""

\* scheduler kill_task(&task_name), the executor's call.
KillTaskCall(name) == [Ev("kill_task") EXCEPT !.name = name]

send_kill_task_by_name_removing(q, name) ==
    [queue |-> Append(q, [Msg("RemoveTask", "api") EXCEPT !.name = name]),
     calls |-> <<KillTaskCall(name)>>]

\* send_kill_task_by_name: the queue of the actor after the call, and the
\* collaborator calls it made.
send_kill_task_by_name(q, name) ==
    [queue |-> q, calls |-> <<KillTaskCall(name)>>]

\* handle_service_delete: the kill for a query "name=<name>" with a name.
handle_service_delete(q, query) ==
    IF ~is_empty(query) /\ starts_with(query, NameParam) /\ ~is_empty(QueryName(query))
    THEN send_kill_task_by_name(q, TaskNameOf(QueryName(query)))
    ELSE [queue |-> q, calls |-> <<>>]

DeleteRequest(query) == [Ev("service_delete") EXCEPT !.to = query]

ApiServiceDelete ==
    /\ \E query \in DeleteQueries :
          LET r == handle_service_delete(queue, query)
          IN  /\ queue' = r.queue
              /\ log' = [log EXCEPT !["api"] = <<DeleteRequest(query)>> \o r.calls]
    /\ UNCHANGED <<api, consul, tasks, nodes, alive, reply, now, fib, clean, ann, exec, start, sync, main>>

DeleteRequests(t) ==
    {m \in ExecRequests(t) :
        /\ m.name = "a"
        /\ \/ m.type \in {"StartTask", "GetTaskState"}
           \/ m.type = "UpdateTaskState" /\ m.state = "Running"}

ExecSendDelete == ExecSendOf(DeleteRequests(now))

NextDelete == Serve \/ ExecSendDelete \/ ExecRecv \/ ApiServiceDelete

SpecDelete == InitShared /\ [][NextDelete]_vars

\* C26: a delete-by-name request leaves the queue of the actor, the responses
\* and both tables as they were; with a name in its query it makes the one call
\* kill_task(name), and no call otherwise.
C26_DeleteOnlyKills ==
    [][log'["api"] # log["api"] =>
          LET query == log'["api"][1].to
              calls == Tail(log'["api"])
          IN  /\ queue' = queue
              /\ reply' = reply
              /\ tasks' = tasks
              /\ nodes' = nodes
              /\ alive' = alive
              /\ IF Len(query) > 5 /\ SubSeq(query, 1, 5) = NameParam
                 THEN calls = <<[Ev("kill_task") EXCEPT !.name = query[6]]>>
                 ELSE calls = <<>>]_vars

\* The running task "a" was named in a delete request, and is in the table,
\* Running, after it.
C26_Witness ==
    /\ log["api"] = <<DeleteRequest(NameParam \o <<"a">>), KillTaskCall("a")>>
    /\ "a" \in DOMAIN tasks
    /\ tasks["a"].state = "Running"
    /\ queue # <<>>


---------------------------------------------------------------------------
\* Heartbeat or new replica.

\* The announce sent the heartbeat's UpdateTaskLastUpdate.
TookHeartbeatPath == \E i \in 1..Len(AnnLog) : AnnLog[i].op = "UpdateTaskLastUpdate"

\* The announce sent the StartTask of a new replica.
TookReplicaPath == \E i \in 1..Len(AnnLog) : AnnLog[i].op = "StartTask"

\* C27 as stated: an announce that has returned was handled as a heartbeat
\* exactly if a task of the table held the announced id, and otherwise as a
\* new replica, whose record is in the table.
C27_HeartbeatIffSameId ==
    AnnReturned =>
       /\ TookHeartbeatPath <=> KnownId(AnnStartState.tasks, ann.task.id)
       /\ ~KnownId(AnnStartState.tasks, ann.task.id) =>
             /\ TookReplicaPath
             /\ ann.task.name \in DOMAIN tasks
             /\ tasks[ann.task.name] = ann.task


\* The new replica's node is in the node table with an external ip, and its
\* own ip is one add_route installs a route to.
Routable ==
    /\ ann.task.node_name \in DOMAIN AnnStartState.nodes
    /\ ~is_empty(AnnStartState.nodes[ann.task.node_name].external_ip)
    /\ ~is_empty(ann.task.ip)
    /\ ~starts_with(network_agent_connection, ann.task.ip)

\* C28 as stated: when the announce of a routable new replica has returned, the
\* routing table holds the route to its ip/32 via the external ip of its node.
C28_NewReplicaRouteInstalled ==
    (AnnReturned /\ TookReplicaPath /\ Routable) =>
        [to |-> Slash32(ann.task.ip),
         via |-> AnnStartState.nodes[ann.task.node_name].external_ip] \in fib


\* The announce is over: it has returned, or its thread has ended.
AnnOver == AnnStartState.valid /\ ann.pc \in {"idle", "panicked"}

\* The lookup by id found nothing: the announce went on with request_node.
InReplicaBranch == \E i \in 1..Len(AnnLog) : AnnLog[i].op = "GetNode"

\* The ip of the record that held the announced name.
OldIp ==
    IF ann.task.name \in DOMAIN AnnStartState.tasks
    THEN AnnStartState.tasks[ann.task.name].ip
    ELSE <<>>

DeleteRoutes == {i \in 1..Len(AnnLog) : AnnLog[i].op = "delete_route"}

\* C29 as stated: an announce that took the new-replica branch has issued, when
\* a record of the announced name held a non-empty ip, exactly one
\* delete_route(agent_type, conn, old_ip), after the add_route for the new ip
\* and before the StartTask; and no delete_route otherwise.
C29_OneDeleteOfOldIp ==
    (AnnOver /\ InReplicaBranch) =>
        IF ~is_empty(OldIp)
        THEN /\ Cardinality(DeleteRoutes) = 1
             /\ \A i \in DeleteRoutes :
                   /\ AnnLog[i] = DeleteRouteCall(network_agent_type,
                                                  network_agent_connection, OldIp)
                   /\ \E j \in 1..(i - 1) :
                         AnnLog[j].op = "add_route" /\ AnnLog[j].to = ann.task.ip
                   /\ \E k \in (i + 1)..Len(AnnLog) : AnnLog[k].op = "StartTask"
        ELSE DeleteRoutes = {}


\* C30 as stated: an announce of a record whose id is not known and whose node
\* is not in the node table is over with no add_route issued, the record in
\* the table under its name, and the call returned.
C30_UnknownNodeStillInserted ==
    (/\ AnnOver
     /\ InReplicaBranch
     /\ ann.task.node_name \notin DOMAIN AnnStartState.nodes) =>
        /\ AddRoutes = {}
        /\ ann.pc = "idle"
        /\ ann.task.name \in DOMAIN tasks
        /\ tasks[ann.task.name] = ann.task


---------------------------------------------------------------------------
\* The clean loop while a peer keeps announcing its task: the peer's task "a"
\* is in the table with its route, a task of this controller waits for its
\* restart, and the announce endpoint receives the record of "a" again and
\* again, as a heartbeat while "a" is known and as a new replica after the
\* clean loop removed it.

PeerInputs ==
    {t \in AnnounceInputs :
        t.name = "a" /\ t.id = <<1>> /\ t.ip = <<2>> /\ t.node_name = "n1"}

AnnBeginPeer == AnnBeginOf(PeerInputs)

AnnStepPeer ==
    \/ AnnBeginPeer \/ AnnGotName \/ AnnGotNode \/ AnnAskIp \/ AnnGotIp \/ AnnStart
    \/ AnnDone

InitExpire ==
    /\ tasks = [n \in {"a", "b"} |->
                  IF n = "a" THEN TaskRecord("a", PeerName, <<1>>, <<2>>, "Running", 0)
                  ELSE TaskRecord("b", my_name, <<>>, <<>>, "Restart", 0)]
    /\ nodes = [n \in {"n1"} |-> NodeRecord("n1", <<7>>, TRUE, 0)]
    /\ fib = RoutesOf(tasks)
    /\ now = 0
    /\ IdleClients
    /\ consul = "ok"
    /\ api = IdleApi

NextExpire == Serve \/ Tick \/ CleanStep \/ AnnStepPeer

SpecExpire == InitExpire /\ [][NextExpire]_vars


\* C31 as stated: when the serving thread takes a RemoveTask of the clean loop
\* for a task of the table, that task is stale at that moment:
\* last_update + timeout < now.
C31_RemovedTaskIsStale ==
    [][(/\ ActorTakesFromClean
        /\ Head(queue).type = "RemoveTask"
        /\ Head(queue).name \in DOMAIN tasks) =>
           (tasks[Head(queue).name].last_update + timeout) < now]_vars


\* Both the clean loop and the announce handler are between two of their runs.
CleanAndAnnounceIdle == clean.pc = "sleep" /\ ann.pc = "idle"

\* The route an announce of the task installs: ip/32 via its node's external ip.
RouteOf(task) ==
    [to |-> Slash32(task.ip), via |-> nodes[task.node_name].external_ip]

\* C32 as stated: whenever the clean loop and the announce handler are both
\* idle, every task of a peer in the table, inserted with a known node and a
\* non-empty ip, has its route in the routing table.
C32_ForeignTaskKeepsRoute ==
    CleanAndAnnounceIdle =>
        \A n \in DOMAIN tasks :
            (/\ tasks[n].controller # my_name
             /\ tasks[n].node_name \in DOMAIN nodes
             /\ ~is_empty(tasks[n].ip)) => RouteOf(tasks[n]) \in fib


---------------------------------------------------------------------------
\* The clean loop while the scheduler reports the state of a task that waits
\* for its restart: "a" was restarted at time 0, and between the requests of a
\* clean tick a status update of "a" arrives.

PromoteRequests(t) ==
    {m \in ExecRequests(t) :
        /\ m.name = "a"
        /\ m.type = "UpdateTaskState"
        /\ m.state \in {"Accepted", "Running", "NotRunning"}}

ExecSendPromote == ExecSendOf(PromoteRequests(now))

InitPromote ==
    /\ tasks = [n \in {"a", "b"} |->
                  IF n = "a" THEN TaskRecord("a", my_name, <<1>>, <<2>>, "Restart", 0)
                  ELSE TaskRecord("b", PeerName, <<3>>, <<4>>, "Running", 0)]
    /\ nodes = [n \in {"n1"} |-> NodeRecord("n1", <<7>>, TRUE, 0)]
    /\ fib = RoutesOf(tasks)
    /\ now = 0
    /\ IdleClients
    /\ consul = "ok"
    /\ api = IdleApi

NextPromote == Serve \/ Tick \/ CleanStep \/ ExecSendPromote \/ ExecRecv

SpecPromote == InitPromote /\ [][NextPromote]_vars

\* The serving thread takes the clean loop's promotion of a task of the table.
ActorTakesPromotion ==
    /\ ActorTakesFromClean
    /\ Head(queue).type = "UpdateTaskState"
    /\ Head(queue).state = "Requested"
    /\ Head(queue).name \in DOMAIN tasks

\* C34 as stated: when the serving thread takes the clean loop's promotion of a
\* task, the task is in state Restart.
C34_PromotedFromRestartOnly ==
    [][ActorTakesPromotion => tasks[Head(queue).name].state = "Restart"]_vars


\* C35 as stated: when the serving thread takes a SetNodeInactive of the clean
\* loop that takes effect, on an active node of the table, that node is stale
\* at that moment: last_seen + timeout < now.
C35_InactivatedNodeIsStale ==
    [][(/\ ActorTakesFromClean
        /\ Head(queue).type = "SetNodeInactive"
        /\ Head(queue).name \in DOMAIN nodes
        /\ nodes[Head(queue).name].active) =>
           (nodes[Head(queue).name].last_seen + timeout) < now]_vars


\* The route calls the sync thread has issued in its current send_announce_task.
SyncRouteCalls ==
    {i \in 1..Len(AnnLog) : AnnLog[i].op \in {"add_route", "delete_route"}}

\* C36 as stated: no step of a sync tick adds a task name to the table or
\* changes a field of a task other than last_update, and the tick's
\* send_announce_task issues no add_route and no delete_route.
C36_SyncTickOnlyRefreshes ==
    [][/\ DOMAIN tasks' \subseteq DOMAIN tasks
       /\ \A n \in DOMAIN tasks' : SameButLastUpdate(tasks[n], tasks'[n])
       /\ SyncRouteCalls' = {}]_vars


---------------------------------------------------------------------------
\* A clean tick while the scheduler restarts a task it started: "a" was
\* started here at time 0, a peer's task "b" is running, and send_restart_task
\* of "a" may be called at any moment of a tick.

StepsRequests(t) ==
    {m \in ExecRequests(t) : m.type = "RestartTask" /\ m.name = "a"}

ExecSendSteps == ExecSendOf(StepsRequests(now))

InitSteps ==
    /\ tasks = [n \in {"a", "b"} |->
                  IF n = "a" THEN TaskRecord("a", my_name, <<>>, <<>>, "Requested", 0)
                  ELSE TaskRecord("b", PeerName, <<3>>, <<4>>, "Running", 0)]
    /\ nodes = [n \in {"n1"} |-> NodeRecord("n1", <<7>>, TRUE, 0)]
    /\ fib = RoutesOf(tasks)
    /\ now = 0
    /\ IdleClients
    /\ consul = "ok"
    /\ api = IdleApi

NextSteps == Serve \/ Tick \/ CleanStep \/ ExecSendSteps \/ ExecRecv

SpecSteps == InitSteps /\ [][NextSteps]_vars

\* C33 as stated: when the serving thread takes the clean loop's promotion of a
\* task, the restart delay since the last RestartTask of that task is over:
\* last_update + restart_delay < now.  Here no request writes last_update but
\* RestartTask, so the last_update of a restarted task is the time RestartTask
\* was last processed on it.
C33_PromotedAfterRestartDelay ==
    [][ActorTakesPromotion =>
          (tasks[Head(queue).name].last_update + restart_delay) < now]_vars

---------------------------------------------------------------------------
\* The order of the requests of one clean tick.

\* The step of the tick a request or a route call of the clean loop belongs to.
CleanStepOf(op) ==
    CASE op \in {"GetRunningTasks", "RemoveTask", "delete_route"} -> 1
      [] op \in {"GetRestartTasks", "UpdateTaskState"} -> 2
      [] op \in {"GetNodes", "SetNodeInactive"} -> 3

\* The requests of a step come after the step's list request, which is sent
\* once, and no request of an earlier step comes after one of a later step.
CleanLogInOrder(L) ==
    /\ \A i \in 1..Len(L) : \A j \in i..Len(L) :
          CleanStepOf(L[i].op) <= CleanStepOf(L[j].op)
    /\ \A i \in 1..Len(L) :
          L[i].op \in {"GetRunningTasks", "GetRestartTasks", "GetNodes"} <=>
             (i = 1 \/ CleanStepOf(L[i - 1].op) < CleanStepOf(L[i].op))

\* The clean loop sends a request of the type in this step.
CleanSends(type) ==
    /\ Len(log'["clean"]) = Len(log["clean"]) + 1
    /\ log'["clean"][Len(log'["clean"])].op = type

\* The clean loop receives the reply of a list request in this step.
CleanGets(type) == reply["clean"].type = type /\ reply'["clean"] = NoReply

\* C37 as stated: the requests of a clean tick are those of the expiry step,
\* then those of the promotion step, then those of the inactivation step, each
\* step beginning with its own list request; the list a step gets holds the
\* records of the table at the moment its request is processed, and every
\* request of the step is for a record of that list: a Running task of a peer,
\* a Restart task of this controller, an active node.
C37_CleanStepsInOrder ==
    [][/\ CleanLogInOrder(CleanLog')
       /\ ActorTakesFromClean =>
             /\ Head(queue).type = "GetRunningTasks" =>
                   reply'["clean"].tasks = TL_get_tasks_with_state(tasks, "Running")
             /\ Head(queue).type = "GetRestartTasks" =>
                   reply'["clean"].tasks = TL_get_tasks_with_state(tasks, "Restart")
             /\ Head(queue).type = "GetNodes" =>
                   reply'["clean"].nodes = NL_get_nodes(nodes)
       /\ (CleanGets("GetRunningTasks") \/ CleanGets("GetRestartTasks")) =>
             clean'.tasks = reply["clean"].tasks /\ clean'.i = 1
       /\ CleanGets("GetNodes") => clean'.nodes = reply["clean"].nodes /\ clean'.i = 1
       /\ CleanSends("RemoveTask") =>
             /\ clean.tasks[clean.i].state = "Running"
             /\ clean.tasks[clean.i].controller # my_name
             /\ clean.tasks[clean.i].name = queue'[Len(queue')].name
       /\ CleanSends("UpdateTaskState") =>
             /\ clean.tasks[clean.i].state = "Restart"
             /\ clean.tasks[clean.i].controller = my_name
             /\ clean.tasks[clean.i].name = queue'[Len(queue')].name
       /\ CleanSends("SetNodeInactive") =>
             /\ clean.nodes[clean.i].active
             /\ clean.nodes[clean.i].name = queue'[Len(queue')].name]_vars


\* A tick is over that issued requests in each of its three steps, and the task
\* it promoted was not waiting for a restart when the tick began: it was
\* restarted between the beginning of the tick and the tick's second step.
C37_Witness ==
    /\ TickDone
    /\ \E i \in 1..Len(CleanLog) : CleanLog[i].op = "RemoveTask"
    /\ \E i \in 1..Len(CleanLog) :
          /\ CleanLog[i].op = "UpdateTaskState"
          /\ start["clean"].tasks[CleanLog[i].name].state # "Restart"
    /\ \E i \in 1..Len(CleanLog) : CleanLog[i].op = "SetNodeInactive"


---------------------------------------------------------------------------
\* C38 as stated: the serving thread handles a RestartTask for a task of the
\* table in one step that sets the task's last_update to now and its state to
\* Restart, changes nothing else in the tables or the routing table and makes
\* no register, add_route or delete_route call; send_restart_task sends that
\* one message and nothing else.
C38_RestartTaskAtomic ==
    [][/\ (ActorTakes("RestartTask") /\ Head(queue).name \in DOMAIN tasks) =>
             /\ tasks' = [tasks EXCEPT ![Head(queue).name] =
                            [@ EXCEPT !.last_update = now, !.state = "Restart"]]
             /\ nodes' = nodes
             /\ fib' = fib
             /\ \A i \in 1..Len(log'["actor"]) :
                   log'["actor"][i].op \notin {"register", "add_route", "delete_route"}
       /\ exec'.msg.type = "RestartTask" => log'["exec"] = <<SentEv(exec'.msg)>>]_vars

\* send_restart_task has returned for a task that was in another state and had
\* an older last_update when it was called.
C38_Witness ==
    /\ exec.pc = "idle"
    /\ exec.msg.type = "RestartTask"
    /\ exec.msg.name \in DOMAIN ExecStartState.tasks
    /\ ExecStartState.tasks[exec.msg.name].state # "Restart"
    /\ ExecStartState.tasks[exec.msg.name].last_update < ExecStartState.now
    /\ exec.msg.name \in DOMAIN tasks
    /\ tasks[exec.msg.name].state = "Restart"
    /\ tasks[exec.msg.name].last_update = ExecStartState.now


---------------------------------------------------------------------------
\* The requests a client has sent and not yet received the reply of: those in
\* the queue of the serving thread, and the one whose reply waits in the
\* client's reply channel.
Outstanding(c) ==
    Cardinality({i \in 1..Len(queue) : queue[i].from = c})
    + (IF reply[c] # NoReply THEN 1 ELSE 0)

\* C39 as stated: every client has at most one request outstanding, so the
\* queue holds at most one message per client and no more messages than there
\* are clients; every message in the queue was sent by a client, and a step in
\* which the serving thread handles a message adds no message to the queue.
C39_OneOutstandingPerClient ==
    [][/\ \A c \in Clients : Outstanding(c)' <= 1
       /\ Len(queue') = Cardinality(Owners(queue'))
       /\ Len(queue') <= Cardinality(Clients)
       /\ Owners(queue') \subseteq Clients
       /\ (log'["actor"] # log["actor"] \/ tasks' # tasks \/ nodes' # nodes) =>
             Len(queue') < Len(queue)
       /\ Len(queue') > Len(queue) => Len(queue') = Len(queue) + 1]_vars

\* The clean loop, the sync loop and an announce handler each wait for the
\* reply of a request that is still in the queue.
C39_Witness ==
    /\ Len(queue) = 3
    /\ Owners(queue) = {"clean", "sync", "announce"}
    /\ clean.pc = "w_remove"
    /\ sync.pc = "w_running"
    /\ ann.pc = "w_done"


---------------------------------------------------------------------------
\* The announce endpoint (run_api.rs): one Mutex<StateManager> for the route
\* /service/announce, shared by the handler threads of the HTTP server; each
\* request runs handle_task_announce on one of them.

\* The client of the actor a handler thread is.
HandlerClient(h) == IF h = 1 THEN "announce" ELSE "announce2"

lock_unguarded(a, h) == TRUE

\* state_manager.lock() returns: no other thread holds the guard.
lock(a, h) == a.lock = 0

\* The record of the request bodies: a new replica of a peer's task on a known
\* node, with an id and an ip.
LockInputs ==
    {t \in AnnounceInputs :
        t.name = "a" /\ t.id = <<1>> /\ t.ip = <<2>> /\ t.node_name = "n1"}

ApiSend(h, m, pc) ==
    /\ queue' = Enq(m)
    /\ api' = [api EXCEPT !.h[h].pc = AfterSend(pc)]

ApiRecv(h) == reply' = [reply EXCEPT ![HandlerClient(h)] = NoReply]

\* json::decode(&body): the handler has the record and calls lock().
ApiDecode(h) ==
    /\ api.h[h].pc = "idle"
    /\ \E t \in LockInputs : api' = [api EXCEPT !.h[h] = [pc |-> "lock", task |-> t]]
    /\ UNCHANGED <<consul, tasks, nodes, alive, queue, reply, now, fib, log, clean, ann,
                   exec, start, sync, main>>

\* lock().unwrap() returned the guard.
ApiLock(h) ==
    /\ api.h[h].pc = "lock"
    /\ lock(api, h)
    /\ api' = [api EXCEPT !.lock = h, !.h[h].pc = "call"]
    /\ UNCHANGED <<consul, tasks, nodes, alive, queue, reply, now, fib, log, clean, ann,
                   exec, start, sync, main>>

\* send_announce_task begins: request_task_name_by_id(task.id) is sent.
ApiAnnBegin(h) ==
    /\ api.h[h].pc = "call"
    /\ LET m == [Msg("GetTaskNameById", HandlerClient(h)) EXCEPT !.id = api.h[h].task.id]
       IN  /\ ApiSend(h, m, "w_name")
           /\ log' = [log EXCEPT ![HandlerClient(h)] = <<SentEv(m)>>]
    /\ start' = [start EXCEPT ![HandlerClient(h)] = Snapshot]
    /\ UNCHANGED <<consul, tasks, nodes, alive, reply, now, fib, clean, ann, exec, sync,
                   main>>

\* The lookup returned: a heartbeat for a known id, else request_node.
ApiGotName(h) ==
    /\ api.h[h].pc = "w_name"
    /\ reply[HandlerClient(h)].type = "TaskName"
    /\ ApiRecv(h)
    /\ LET task == api.h[h].task
           hb == [Msg("UpdateTaskLastUpdate", HandlerClient(h)) EXCEPT
                     !.name = HeartbeatName(task, reply[HandlerClient(h)].name)]
           gn == [Msg("GetNode", HandlerClient(h)) EXCEPT !.name = task.node_name]
       IN  IF IsHeartbeat(reply[HandlerClient(h)].name)
           THEN /\ ApiSend(h, hb, "w_done")
                /\ log' = Logged(HandlerClient(h), <<SentEv(hb)>>)
           ELSE /\ ApiSend(h, gn, "w_node")
                /\ log' = Logged(HandlerClient(h), <<SentEv(gn)>>)
    /\ UNCHANGED <<consul, tasks, nodes, alive, now, fib, clean, ann, exec, start, sync,
                   main>>

\* request_node returned Some(node): add_route(.., &task.ip, &node.external_ip).
ApiGotNode(h) ==
    /\ api.h[h].pc = "w_node"
    /\ reply[HandlerClient(h)].type = "GetNode"
    /\ ApiRecv(h)
    /\ LET node == reply[HandlerClient(h)].node
           task == api.h[h].task
       IN  /\ fib' = add_route(fib, network_agent_type, network_agent_connection,
                               task.ip, node.external_ip)
           /\ log' = Logged(HandlerClient(h),
                            <<AddRouteCall(network_agent_type, network_agent_connection,
                                           task.ip, node.external_ip)>>)
    /\ api' = [api EXCEPT !.h[h].pc = "ask_ip"]
    /\ UNCHANGED <<consul, tasks, nodes, alive, queue, now, clean, ann, exec, start, sync,
                   main>>

\* request_task_ip(task.name) is sent.
ApiAskIp(h) ==
    /\ api.h[h].pc = "ask_ip"
    /\ LET m == [Msg("GetTaskIP", HandlerClient(h)) EXCEPT !.name = api.h[h].task.name]
       IN  /\ ApiSend(h, m, "w_ip")
           /\ log' = Logged(HandlerClient(h), <<SentEv(m)>>)
    /\ UNCHANGED <<consul, tasks, nodes, alive, reply, now, fib, clean, ann, exec, start,
                   sync, main>>

\* request_task_ip returned: delete_route(.., &ip) when ip.len() > 0.
ApiGotIp(h) ==
    /\ api.h[h].pc = "w_ip"
    /\ reply[HandlerClient(h)].type = "TaskIP"
    /\ ApiRecv(h)
    /\ LET ip == reply[HandlerClient(h)].ip
       IN  IF Len(ip) > 0
           THEN /\ fib' = delete_route(fib, network_agent_type,
                                       network_agent_connection, ip)
                /\ log' = Logged(HandlerClient(h),
                                 <<DeleteRouteCall(network_agent_type,
                                                   network_agent_connection, ip)>>)
           ELSE UNCHANGED <<fib, log>>
    /\ api' = [api EXCEPT !.h[h].pc = "start"]
    /\ UNCHANGED <<consul, tasks, nodes, alive, queue, now, clean, ann, exec, start, sync,
                   main>>

\* StartTask { task: task.clone() } is sent.
ApiStart(h) ==
    /\ api.h[h].pc = "start"
    /\ LET m == [Msg("StartTask", HandlerClient(h)) EXCEPT
                    !.name = api.h[h].task.name, !.task = api.h[h].task]
       IN  /\ ApiSend(h, m, "w_done")
           /\ log' = Logged(HandlerClient(h), <<SentEv(m)>>)
    /\ UNCHANGED <<consul, tasks, nodes, alive, reply, now, fib, clean, ann, exec, start,
                   sync, main>>

\* send_announce_task returned: the statement ends, the guard is dropped and
\* the handler answers "done".
ApiDone(h) ==
    /\ api.h[h].pc = "w_done"
    /\ reply[HandlerClient(h)].type \in {"UpdateTaskLastUpdate", "StartTask"}
    /\ ApiRecv(h)
    /\ api' = [api EXCEPT !.lock = 0, !.h[h].pc = "done"]
    /\ log' = Logged(HandlerClient(h), <<Ev("return")>>)
    /\ UNCHANGED <<consul, tasks, nodes, alive, queue, now, fib, clean, ann, exec, start,
                   sync, main>>

handle_task_announce(h) ==
    \/ ApiDecode(h) \/ ApiLock(h) \/ ApiAnnBegin(h) \/ ApiGotName(h) \/ ApiGotNode(h)
    \/ ApiAskIp(h) \/ ApiGotIp(h) \/ ApiStart(h) \/ ApiDone(h)

\* Two requests with the same record reach the endpoint of a controller that
\* does not know the task yet.
InitLock ==
    /\ tasks = EmptyTasks
    /\ nodes = [n \in {"n1"} |-> NodeRecord("n1", <<7>>, TRUE, 0)]
    /\ fib = {}
    /\ now = 0
    /\ IdleClients
    /\ consul = "ok"
    /\ api = IdleApi

NextLock == Serve \/ Tick \/ \E h \in Handlers : handle_task_announce(h)

SpecLock == InitLock /\ [][NextLock]_vars

\* The events of a handler's send_announce_task.
HandlerLog(h) == log[HandlerClient(h)]

\* The handlers that are inside send_announce_task.
InAnnounce == {h \in Handlers : api.h[h].pc \notin {"idle", "lock", "done"}}

\* The add_route calls of the handlers, as (handler, position in its log).
HandlerAddRoutes ==
    {<<h, i>> \in Handlers \X (1..8) :
        i <= Len(HandlerLog(h)) /\ HandlerLog(h)[i].op = "add_route"}

\* The handlers whose announce was a heartbeat: an UpdateTaskLastUpdate and no
\* route call and no StartTask.
Heartbeats ==
    {h \in Handlers :
        /\ HasEvent(HandlerLog(h),
                    SentEv([Msg("UpdateTaskLastUpdate", HandlerClient(h)) EXCEPT
                               !.name = api.h[h].task.name]))
        /\ \A i \in 1..Len(HandlerLog(h)) :
              HandlerLog(h)[i].op \notin {"add_route", "delete_route", "StartTask"}}

\* C40 as stated: at most one handler is inside send_announce_task at a time,
\* and once two handlers have announced the same record of a task that was not
\* known, exactly one add_route has been issued and the other announce was a
\* heartbeat.
C40_AnnouncesOneAtATime ==
    /\ Cardinality(InAnnounce) <= 1
    /\ (\A h \in Handlers : api.h[h].pc = "done") =>
          /\ Cardinality(HandlerAddRoutes) = 1
          /\ Cardinality(Heartbeats) = 1

\* Both handlers have answered; the second one began to wait for the lock
\* while the first was inside send_announce_task.
C40_Witness ==
    /\ \A h \in Handlers : api.h[h].pc = "done"
    /\ \E h \in Handlers :
          /\ h \in Heartbeats
          /\ start[HandlerClient(h)].tasks # EmptyTasks
    /\ "a" \in DOMAIN tasks

====
